---- MODULE Spec2Model ----
(***************************************************************************)
(* A model of ruledxml (src/ruledxml/core.py, src/ruledxml/xml.py): the    *)
(* rule validator, the rule classifier, the sibling ordering and the       *)
(* execution loop, driven through apply_rules, run and batch_run.          *)
(*                                                                         *)
(* Python values are modelled as follows.                                  *)
(*   str          a sequence of one-character strings                      *)
(*   list, tuple  a sequence                                               *)
(*   dict         a function whose domain is the set of keys               *)
(*   None / int   an optional value: <<>> is None, <<n>> is the int n      *)
(*   exception    the name of its class; "none" when nothing was raised    *)
(***************************************************************************)
EXTENDS Integers, Sequences, FiniteSets, TLC

VARIABLES
    entry,        \* the entry point called: "apply_rules", "run", "batch_run"
    pc,           \* the statement the call is at
    file,         \* the lines of the rules file (run, batch_run)
    rules,        \* the rules mapping, in the mapping's iteration order
    meta,         \* the metadata dict read_rulesfile returns
    nmatches,     \* batch_run: the number of elements src_dom.xpath(base) returns
    nout,         \* batch_run: len(out_filepaths)
    count,        \* batch_run: the loop counter `count`
    classified,   \* the value of `classified` / `ordered` in apply_rules
    pos,          \* run_rules: the next index of `for obj in classified`
    target_dom,   \* run_rules: the value of `target_dom`
    invoked,      \* the names of the rule implementations invoked so far
    loaded,       \* TRUE once read_rulesfile has loaded the rules module
    srcread,      \* TRUE once xml.read has read the source document
    written,      \* the number of destination trees xml.write has serialised
    exc,          \* the exception that left the entry point, or "none"
    at,           \* the statement that raised it, or "none"
    src_dom,      \* the source tree
    arg,          \* the arguments of a function of xml.py or of
                  \* normalize_path called on its own
    result,       \* the value that call returned, None before it returns
    last_output   \* run_rules: the value the rule invoked last returned

vars == <<entry, pc, file, rules, meta, nmatches, nout, count, classified,
          pos, target_dom, invoked, loaded, srcread, written, exc, at,
          src_dom, arg, result, last_output>>

---------------------------------------------------------------------------
(* Bounds of the model. *)

MaxRules == 2          \* rules in a rules mapping given to apply_rules
MaxOrder == 2          \* explicit orders are 1..MaxOrder
MaxLines == 3          \* lines of a rules file
MaxMatches == 2        \* elements matched by the base path of batch_run
MaxBindings == 2       \* namespace bindings given to a namespace function
MaxChildren == 2       \* children of the root of a source document

---------------------------------------------------------------------------
(* Python strings, dicts and optional values. *)

None == <<>>
Some(v) == <<v>>

EmptyDict == [k \in {} |-> 0]

\* dict.get(key, default)
Get(d, key, default) == IF key \in DOMAIN d THEN d[key] ELSE default

\* The characters that occur in the modelled paths, in code point order.
Alphabet == <<"/", "a", "b", "c", "d", "e", "t", "x", "y", "z">>

Ord(c) == CHOOSE i \in 1..Len(Alphabet) : Alphabet[i] = c

\* str.startswith: a comparison of characters, not of path segments.
startswith_swapped(s, prefix) ==
    /\ Len(s) <= Len(prefix)
    /\ SubSeq(prefix, 1, Len(s)) = s

startswith(s, prefix) ==
    /\ Len(prefix) <= Len(s)
    /\ SubSeq(s, 1, Len(prefix)) = prefix

\* s < t for Python strings: lexicographic by code point.
RECURSIVE StrLess(_, _)
StrLess(s, t) ==
    IF t = <<>> THEN FALSE
    ELSE IF s = <<>> THEN TRUE
    ELSE IF Head(s) = Head(t) THEN StrLess(Tail(s), Tail(t))
    ELSE Ord(Head(s)) < Ord(Head(t))

\* The non-empty segments of a path: filter(bool, base.strip('/').split('/')).
RECURSIVE Segments(_)
Segments(p) ==
    IF p = <<>> THEN <<>>
    ELSE IF Head(p) = "/" THEN Segments(Tail(p))
    ELSE LET n == CHOOSE k \in 1..Len(p) :
                     /\ \A i \in 1..k : p[i] # "/"
                     /\ (k = Len(p) \/ p[k + 1] = "/")
         IN  <<SubSeq(p, 1, n)>> \o Segments(SubSeq(p, n + 1, Len(p)))

\* Whole-segment prefix: the reading of "structural path prefix" in the
\* specification of the validator (4.3) and of the iteration forest (3).
StructuralPrefix(outer, inner) ==
    LET o == Segments(outer)
        i == Segments(inner)
    IN  Len(o) <= Len(i) /\ SubSeq(i, 1, Len(o)) = o

---------------------------------------------------------------------------
(* The paths used as inputs. *)

P_xa  == <<"/", "x", "/", "a">>
P_xab == <<"/", "x", "/", "a", "b">>
P_xa_b == <<"/", "x", "/", "a", "/", "b">>
P_yb  == <<"/", "y", "/", "b">>
P_d   == <<"/", "d">>
P_de  == <<"/", "d", "/", "e">>
P_det == <<"/", "d", "/", "e", "/", "t">>
P_xat == <<"/", "x", "/", "a", "/", "t">>

---------------------------------------------------------------------------
(* Rules.  A rule is a function object; the decorators @source,            *)
(* @destination and @foreach give it the attribute `metadata`, a dict with *)
(* the keys 'src' (list of paths), 'dst' ({'dests': list, 'order': None or *)
(* int}) and 'each' (list of tuples), each key present only when its       *)
(* decorator was applied.                                                  *)

RuleNames == <<"ruleA", "ruleB", "ruleC", "ruleD">>

Orders == {None} \cup {Some(k) : k \in 1..MaxOrder}

\* the 'each' lists given to the rules; pairs of one and of three
\* components come from @foreach called with one or three arguments
EachLists ==
    { <<>>,
      << <<P_xa, P_d>> >>,
      << <<P_xa_b, P_de>> >>,
      << <<P_xa, P_d>>, <<P_xa_b, P_de>> >>,
      << <<P_xa, P_d>>, <<P_xab, P_de>> >>,
      << <<P_xa, P_d>>, <<P_yb, P_de>> >>,
      << <<P_xa, P_d>>, <<P_xa, P_de>> >>,
      << <<P_xa>> >>,
      << <<P_xa, P_d, P_de>> >>,
      << <<P_xa, P_d>>, <<P_xa_b>> >>,
      << <<P_xa, P_d>>, <<P_xa_b, P_de, P_de>> >> }

SrcLists == { <<>>, <<P_xat>> }

DstDicts ==
    { [dests |-> <<P_det>>, order |-> o] : o \in Orders }

BadDstDicts ==
    { [dests |-> <<>>, order |-> None],
      [dests |-> <<P_det, P_d>>, order |-> None] }

\* the metadata dicts: a key is absent when its decorator was not applied
Metadatas ==
    LET srcPart(s) == IF s = <<>> THEN EmptyDict ELSE ("src" :> s)
    IN  { srcPart(s) @@ ("dst" :> d) : s \in SrcLists, d \in DstDicts }
        \cup { srcPart(s) @@ ("dst" :> d) @@ ("each" :> e) :
                   s \in SrcLists, d \in DstDicts, e \in EachLists }
        \cup { ("src" :> <<P_xat>>) @@ ("dst" :> d) : d \in BadDstDicts }
        \cup { ("src" :> <<P_xat>>) @@ ("dst" :> d)
                   @@ ("each" :> << <<P_xa, P_d>> >>) : d \in BadDstDicts }
        \cup { ("src" :> <<P_xat>>),
               ("src" :> <<P_xat>>) @@ ("each" :> << <<P_xa, P_d>> >>) }

\* a function named rule* with no decorator has no attribute `metadata`
RuleObjects ==
    { [hasMetadata |-> TRUE, metadata |-> m] : m \in Metadatas }
        \cup { [hasMetadata |-> FALSE, metadata |-> EmptyDict] }

\* the rules mapping that gives the objects f[1], f[2], ... to the rule
\* names, in iteration order
rules_mapping(f) == [i \in DOMAIN f |-> [name |-> RuleNames[i], rule |-> f[i]]]

---------------------------------------------------------------------------
(* validate_rules *)

\* the loop `for base_src, base_dst in rule.metadata['each']` from pair i
\* on, with prev_base_src = prev; unpacking a tuple that has not two
\* components raises ValueError
RECURSIVE nesting_loop(_, _, _)
nesting_loop(each, i, prev) ==
    IF i > Len(each) THEN "none"
    ELSE IF Len(each[i]) # 2 THEN "ValueError"
    ELSE IF prev # None /\ ~startswith(each[i][1], prev[1])
         THEN "InvalidRuleForeach"
    ELSE nesting_loop(each, i + 1, Some(each[i][1]))

\* the test `dst_len != 1`
destination_count_wrong(dst_len) == dst_len # 1

\* the checks of one rule; the exception raised, or "none"
validate_rule(rule) ==
    IF ~rule.hasMetadata THEN "InvalidRuleDestination"
    ELSE LET md == rule.metadata
             dst == Get(md, "dst", EmptyDict)
             dst_len == Len(Get(dst, "dests", <<>>))
         IN  IF destination_count_wrong(dst_len)
             THEN "TooManyRuleDestinations"
             ELSE IF "each" \in DOMAIN md
             THEN LET each == md["each"]
                      each_dst_len == Len(Get(Get(md, "dst", EmptyDict),
                                              "dsts", <<>>))
                  IN  IF Len(each) = 0 THEN "InvalidRuleForeach"
                      ELSE IF Len(each[1]) # 2 THEN "InvalidRuleForeach"
                      ELSE IF each_dst_len > 1 THEN "InvalidRuleForeach"
                      ELSE IF Len(Get(md, "src", <<>>)) = 0 THEN "none"
                      ELSE nesting_loop(each, 1, None)
             ELSE "none"

\* `for rulename, rule in rules.items()` from index i on
RECURSIVE validate_from(_, _)
validate_from(rs, i) ==
    IF i > Len(rs) THEN "none"
    ELSE LET e == validate_rule(rs[i].rule)
         IN  IF e # "none" THEN e ELSE validate_from(rs, i + 1)

validate_rules(rs) == validate_from(rs, 1)

---------------------------------------------------------------------------
(* build_recursive_structure *)

\* the set all_each_bases: every tuple of every rule's 'foreach' list
all_each_bases(foreach_rules) ==
    UNION { { foreach_rules[r].foreach[i] :
                  i \in 1..Len(foreach_rules[r].foreach) } :
            r \in 1..Len(foreach_rules) }

\* a variant in which the list of bases may repeat a base
sorted_bases_with_repeats(bases) ==
    { f \in [1..Cardinality(bases) -> bases] :
          \A i, j \in DOMAIN f : i < j => ~StrLess(f[j][1], f[i][1]) }

\* The lists that list(all_each_bases) followed by sort(key=e[0]) can give:
\* a set is iterated in an order the hash seed decides and the sort is
\* stable, so every arrangement with non-decreasing e[0] is possible.
sorted_bases(bases) ==
    { f \in [1..Cardinality(bases) -> bases] :
          /\ \A i, j \in DOMAIN f : i # j => f[i] # f[j]
          /\ \A i, j \in DOMAIN f : i < j => ~StrLess(f[j][1], f[i][1]) }

\* a variant in which no element is ever descended into
prefix_matches_none(current, base) == {}

\* the indexes of the elements of `current` that the test
\* base[0].startswith(element['srcbase']) accepts
prefix_matches(current, base) ==
    { i \in 1..Len(current) : startswith(base[1], current[i].srcbase) }

\* One run of `while not added` for `base`, started at the list `current`:
\* descend into the first element whose srcbase is a prefix, else append.
RECURSIVE insert_base(_, _)
insert_base(current, base) ==
    LET m == prefix_matches(current, base)
    IN  IF m # {}
        THEN LET i == CHOOSE k \in m : \A l \in m : k <= l
             IN  [current EXCEPT ![i].children = insert_base(@, base)]
        ELSE Append(current, [class |-> "iteration",
                              srcbase |-> base[1],
                              dstbase |-> base[2],
                              children |-> <<>>])

\* `for base in all_each_bases` from index i on; base[1] of a tuple of one
\* component raises IndexError
RECURSIVE insert_all(_, _, _)
insert_all(structure, bases, i) ==
    IF i > Len(bases) THEN [exc |-> "none", structure |-> structure]
    ELSE IF Len(bases[i]) < 2 THEN [exc |-> "IndexError", structure |-> <<>>]
    ELSE insert_all(insert_base(structure, bases[i]), bases, i + 1)

\* build_recursive_structure, for one iteration order of the set of bases
build_recursive_structure(bases) == insert_all(<<>>, bases, 1)

---------------------------------------------------------------------------
(* classify_rules *)

has_each(r) == "each" \in DOMAIN r.rule.metadata

dst_of(r) == Get(r.rule.metadata, "dst", EmptyDict)

\* max_user_dorder after the first loop, from rule i on
RECURSIVE max_user_dorder_loop(_, _, _)
max_user_dorder_loop(rs, i, m) ==
    IF i > Len(rs) THEN m
    ELSE IF has_each(rs[i]) THEN max_user_dorder_loop(rs, i + 1, m)
    ELSE LET user_dorder == Get(dst_of(rs[i]), "order", None)
         IN  IF m = None \/ (user_dorder # None /\ user_dorder[1] > m[1])
             THEN max_user_dorder_loop(rs, i + 1, user_dorder)
             ELSE max_user_dorder_loop(rs, i + 1, m)

\* the entries the first loop appends, 'dorder' still None where no order
\* was declared
RECURSIVE basic_entries(_, _)
basic_entries(rs, i) ==
    IF i > Len(rs) THEN <<>>
    ELSE IF has_each(rs[i]) THEN basic_entries(rs, i + 1)
    ELSE << [name |-> rs[i].name,
             class |-> "basicrule",
             each |-> <<>>,
             src |-> Get(rs[i].rule.metadata, "src", <<>>),
             dst |-> Get(dst_of(rs[i]), "dests", <<>>),
             dorder |-> Get(dst_of(rs[i]), "order", None)] >>
         \o basic_entries(rs, i + 1)

next_dorder_without_increment(m) == m

\* `max_user_dorder += 1`
next_dorder(m) == m + 1

\* `for ruledata in classified`: number the entries that have no order
RECURSIVE assign_dorders(_, _, _)
assign_dorders(entries, i, m) ==
    IF i > Len(entries) THEN [entries |-> entries, max |-> m]
    ELSE IF entries[i].dorder = None
    THEN assign_dorders([entries EXCEPT ![i].dorder = next_dorder(m)],
                        i + 1, next_dorder(m))
    ELSE assign_dorders([entries EXCEPT ![i].dorder = entries[i].dorder[1]],
                        i + 1, m)

\* the loop that fills foreach_rules, from rule i on
RECURSIVE foreach_rules_loop(_, _, _)
foreach_rules_loop(rs, i, m) ==
    IF i > Len(rs) THEN [list |-> <<>>, max |-> m]
    ELSE IF ~has_each(rs[i]) THEN foreach_rules_loop(rs, i + 1, m)
    ELSE LET declared == Get(dst_of(rs[i]), "dorder", None)
             m2 == IF declared = None THEN next_dorder(m) ELSE m
             dorder == IF declared = None THEN m2 ELSE declared[1]
             rest == foreach_rules_loop(rs, i + 1, m2)
         IN  [list |-> << [foreach |-> rs[i].rule.metadata["each"],
                           source |-> Get(rs[i].rule.metadata, "src", <<>>),
                           destination |-> Get(dst_of(rs[i]), "dests", <<>>),
                           dorder |-> dorder] >> \o rest.list,
              max |-> rest.max]

\* the list at the address addr of the structure: <<>> is the top-level
\* list, addr \o <<i>> the children list of element i of the list at addr
RECURSIVE list_at(_, _)
list_at(tree, addr) ==
    IF addr = <<>> THEN tree
    ELSE list_at(tree[Head(addr)].children, Tail(addr))

\* One pass of `for element in current` of the nested function traverse,
\* from element i on; cur is the element `current` was last bound to.
\* A foreach-rule entry has no key 'srcbase'.
RECURSIVE traverse_pass(_, _, _, _)
traverse_pass(current, i, xpath, cur) ==
    IF i > Len(current) THEN [kind |-> "end", cur |-> cur]
    ELSE IF "srcbase" \notin DOMAIN current[i]
    THEN [kind |-> "KeyError", cur |-> cur]
    ELSE IF xpath = current[i].srcbase THEN [kind |-> "return", cur |-> Some(i)]
    ELSE IF startswith(xpath, current[i].srcbase)
    THEN traverse_pass(current, i + 1, xpath, Some(i))
    ELSE traverse_pass(current, i + 1, xpath, cur)

\* traverse(tree, xpath) with `current` the list at addr: the address of
\* the children list returned, or KeyError, or "loop" when a pass leaves
\* `current` as it was and `while not found` runs for ever
RECURSIVE traverse(_, _, _)
traverse(tree, addr, xpath) ==
    LET p == traverse_pass(list_at(tree, addr), 1, xpath, None)
    IN  IF p.kind = "KeyError" THEN [kind |-> "KeyError", addr |-> <<>>]
        ELSE IF p.kind = "return"
        THEN [kind |-> "return", addr |-> addr \o p.cur]
        ELSE IF p.cur = None THEN [kind |-> "loop", addr |-> <<>>]
        ELSE traverse(tree, addr \o p.cur, xpath)

\* lst.append(entry) for the list at addr
RECURSIVE append_at(_, _, _)
append_at(tree, addr, item) ==
    IF addr = <<>> THEN Append(tree, item)
    ELSE [tree EXCEPT ![Head(addr)].children =
              append_at(@, Tail(addr), item)]

\* the loop that adds the rules to the recursive structure, from rule i on
RECURSIVE add_rules_loop(_, _, _, _)
add_rules_loop(rs, i, m, tree) ==
    IF i > Len(rs) THEN [exc |-> "none", structure |-> tree]
    ELSE IF ~has_each(rs[i]) THEN add_rules_loop(rs, i + 1, m, tree)
    ELSE LET md == rs[i].rule.metadata
             declared == Get(dst_of(rs[i]), "dorder", None)
             m2 == IF declared = None THEN next_dorder(m) ELSE m
             dorder == IF declared = None THEN m2 ELSE declared[1]
             most_nested == md["each"][Len(md["each"])]
             lst == traverse(tree, <<>>, most_nested[1])
         IN  IF lst.kind = "KeyError"
             THEN [exc |-> "KeyError", structure |-> <<>>]
             ELSE IF lst.kind = "loop"
             THEN [exc |-> "loop", structure |-> <<>>]
             ELSE add_rules_loop(rs, i + 1, m2,
                      append_at(tree, lst.addr,
                          [class |-> "foreach-rule",
                           name |-> rs[i].name,
                           src |-> Get(md, "src", <<>>),
                           dst |-> Get(dst_of(rs[i]), "dests", <<>>),
                           dorder |-> dorder]))

\* classify_rules(rules) for one iteration order `bases` of all_each_bases:
\* the exception raised ("loop": it never returns) and the list returned
classify_rules(rs, bases) ==
    LET m0 == max_user_dorder_loop(rs, 1, None)
        m1 == IF m0 = None THEN 0 ELSE m0[1]
        basic == assign_dorders(basic_entries(rs, 1), 1, m1)
        each_found == \E i \in 1..Len(rs) : has_each(rs[i])
        fr == foreach_rules_loop(rs, 1, basic.max)
        built == build_recursive_structure(bases)
        added == add_rules_loop(rs, 1, fr.max, built.structure)
    IN  IF ~each_found THEN [exc |-> "none", classified |-> basic.entries]
        ELSE IF built.exc # "none" THEN [exc |-> built.exc, classified |-> <<>>]
        ELSE IF added.exc # "none" THEN [exc |-> added.exc, classified |-> <<>>]
        ELSE [exc |-> "none", classified |-> basic.entries \o added.structure]

\* the orders in which classify_rules can meet the bases of the rules
base_orders(rs) == sorted_bases(all_each_bases(foreach_rules_loop(rs, 1, 0).list))

---------------------------------------------------------------------------
(* reorder_rules *)

\* a variant in which an entry without 'dorder' sorts as 0
sort_key_zero(v) == IF "dorder" \in DOMAIN v THEN <<0, v.dorder>> ELSE <<0, 0>>

\* the sort key v.get('dorder', float('inf')): <<0, n>> for n, <<1, 0>>
\* for infinity
sort_key(v) == IF "dorder" \in DOMAIN v THEN <<0, v.dorder>> ELSE <<1, 0>>

key_less(a, b) == a[1] < b[1] \/ (a[1] = b[1] /\ a[2] < b[2])

\* list.sort is stable: an element goes behind the elements whose key is
\* not greater than its own
RECURSIVE stable_sort(_)
stable_sort(seq) ==
    IF Len(seq) <= 1 THEN seq
    ELSE LET init == stable_sort(SubSeq(seq, 1, Len(seq) - 1))
             x == seq[Len(seq)]
             before == { i \in 1..Len(init) :
                            ~key_less(sort_key(x), sort_key(init[i])) }
             n == Cardinality(before)
         IN  SubSeq(init, 1, n) \o <<x>> \o SubSeq(init, n + 1, Len(init))

sorting_traverse_unsorted(node) == node

\* sorting_traverse(node): sort the list, then the children lists
RECURSIVE sorting_traverse(_)
sorting_traverse(node) ==
    LET sorted == stable_sort(node)
    IN  [i \in 1..Len(sorted) |->
            IF "children" \in DOMAIN sorted[i]
            THEN [sorted[i] EXCEPT !.children = sorting_traverse(@)]
            ELSE sorted[i]]

reorder_rules(rs) == sorting_traverse(rs)

---------------------------------------------------------------------------
(* Calls into ruledxml.xml.  A Python call raises TypeError when its       *)
(* arguments do not bind to the parameters of the function called.         *)

\* the parameters of the functions of xml.py: their names in order, and
\* how many of them have no default value
Sig_read_source == [params |-> <<"dom", "path">>, required |-> 2]
Sig_write_destination ==
    [params |-> <<"dom", "path", "value", "xmlns">>, required |-> 3]
Sig_read_ambiguous_element ==
    [params |-> <<"dom", "path", "bases">>, required |-> 2]
Sig_write_new_ambiguous_element ==
    [params |-> <<"dom", "path", "bases", "xmlns">>, required |-> 2]
Sig_read_base_source == [params |-> <<"dom", "path", "bases">>, required |-> 3]
Sig_write_base_destination ==
    [params |-> <<"dom", "path", "value", "bases", "xmlns">>, required |-> 4]

\* the arguments of the calls made by run_rules: the number of positional
\* arguments and the names of the keyword arguments
Call_read_source == [npos |-> 3, kw |-> {}]
Call_write_destination == [npos |-> 3, kw |-> {"xmlmap"}]
Call_read_ambiguous_element == [npos |-> 4, kw |-> {}]
Call_write_new_ambiguous_element == [npos |-> 4, kw |-> {}]
Call_read_base_source == [npos |-> 2, kw |-> {"bases", "xmlmap"}]
Call_write_base_destination == [npos |-> 3, kw |-> {"bases", "xmlmap"}]

\* whether the arguments bind: no surplus positional argument, every
\* keyword names a parameter not yet bound, every required parameter bound
binds(sig, call) ==
    /\ call.npos <= Len(sig.params)
    /\ \A k \in call.kw :
           \E i \in (call.npos + 1)..Len(sig.params) : sig.params[i] = k
    /\ \A i \in 1..sig.required : i <= call.npos \/ sig.params[i] \in call.kw

\* xml.traverse reads its local variable `xmlns` (assigned two lines
\* later, and no parameter: it is a parameter of the default `finish`
\* lambda) before any assignment
xml_traverse == "UnboundLocalError"

\* the exception a call of an xml.py function raises: TypeError when the
\* arguments do not bind, else what the body raises
xml_call(sig, call, body) == IF binds(sig, call) THEN body ELSE "TypeError"

---------------------------------------------------------------------------
(* run_rules.  normalize_path raises only for a namespace prefix that no   *)
(* binding declares; the paths of the modelled rules carry no prefix, so   *)
(* its calls return.                                                       *)

\* the values a rule implementation can return
Outputs == {None, Some("v")}

skips_write_never(output) == FALSE

\* `if output is None: continue`
skips_write(output) == output = None

\* One turn of `for obj in classified` for obj, the rule implementation
\* returning `output` if it is invoked: the exception raised, the rule
\* invoked (None: none), and target_dom afterwards.
run_object(obj, output, dom) ==
    IF obj.class = "basicrule"
    THEN LET \* xml.read_source(src_dom, source, xmlmap), first source
             read == IF Len(obj.src) > 0
                     THEN xml_call(Sig_read_source, Call_read_source, "none")
                     ELSE "none"
         IN  IF read # "none"
             THEN [exc |-> read, invoked |-> None, target_dom |-> dom]
             ELSE IF skips_write(output)
             THEN [exc |-> "none", invoked |-> Some(obj.name),
                   target_dom |-> dom]
             ELSE \* xml.write_destination(target_dom, dst, output,
                  \*                       xmlmap=xmlmap)
                  [exc |-> xml_call(Sig_write_destination,
                                    Call_write_destination, xml_traverse),
                   invoked |-> Some(obj.name),
                   target_dom |-> dom]
    ELSE \* finish_a_tree, class 'iteration':
         \* xml.read_ambiguous_element(src_dom, srcbase, src_bases, xmlmap)
         [exc |-> xml_call(Sig_read_ambiguous_element,
                           Call_read_ambiguous_element, xml_traverse),
          invoked |-> None,
          target_dom |-> dom]

---------------------------------------------------------------------------
(* unique_function and read_rulesfile *)

\* The names of the functions a rules file defines, in the order of
\* dir(), that is sorted, and their spelling.
FunctionNames == {"helper", "rule", "ruleA"}

MemberOrder == <<"helper", "rule", "ruleA">>

Spelling ==
    ("helper" :> <<"h", "e", "l", "p", "e", "r">>)
        @@ ("rule" :> <<"r", "u", "l", "e">>)
        @@ ("ruleA" :> <<"r", "u", "l", "e", "A">>)

\* the characters \w matches, of those that occur in the names
WordChars == {"h", "e", "l", "p", "r", "u", "A"}

\* member.startswith("rule")
starts_with_rule(name) == startswith(Spelling[name], <<"r", "u", "l", "e">>)

\* the group (rule\w+) matches the name: "rule" and then at least one
\* character of \w
matches_rule_w(name) ==
    /\ startswith(Spelling[name], <<"r", "u", "l", "e">>)
    /\ Len(Spelling[name]) > 4
    /\ \A i \in 5..Len(Spelling[name]) : Spelling[name][i] \in WordChars

\* The lines of a rules file.  A line is a function definition at the
\* left margin, `def <name>(...)` ("def"), a function definition indented
\* in a compound statement of the module level that is executed, such as
\* `if True:` ("def_in_block"), or any other line (a decorator, a
\* statement of a body, an import).
Lines == { [kind |-> "def", name |-> n] : n \in FunctionNames }
             \cup { [kind |-> "def_in_block", name |-> "ruleA"],
                    [kind |-> "other", name |-> ""] }

Files == UNION { [1..n -> Lines] : n \in 0..MaxLines }

\* re.compile("def\s+(rule\w+)").match(line): the name matched, or None;
\* match looks at the start of the line only
pattern_match(line) ==
    IF line.kind = "def" /\ matches_rule_w(line.name)
    THEN Some(line.name) ELSE None

\* unique_function: a name matched on two lines raises
unique_function(lines) ==
    IF \E i, j \in 1..Len(lines) :
           /\ i < j
           /\ pattern_match(lines[i]) # None
           /\ pattern_match(lines[i]) = pattern_match(lines[j])
    THEN "RuledXmlException" ELSE "none"

\* the names the loaded module binds: a later definition of a name
\* replaces an earlier one
module_members(lines) ==
    { n \in FunctionNames :
          \E i \in 1..Len(lines) :
              lines[i].kind \in {"def", "def_in_block"} /\ lines[i].name = n }

\* the members of the loaded module whose name starts with "rule", in the
\* order of dir(): sorted by name
rule_members(lines) ==
    SelectSeq(MemberOrder,
              LAMBDA n : n \in module_members(lines) /\ starts_with_rule(n))

\* the function objects a rules file can bind to a rule name
FileRuleObjects ==
    { [hasMetadata |-> FALSE, metadata |-> EmptyDict],
      [hasMetadata |-> TRUE,
       metadata |-> ("dst" :> [dests |-> <<P_det>>, order |-> None])],
      [hasMetadata |-> TRUE,
       metadata |-> ("dst" :> [dests |-> <<P_det>>, order |-> Some(1)])],
      [hasMetadata |-> TRUE,
       metadata |-> ("src" :> <<P_xat>>)
                    @@ ("dst" :> [dests |-> <<P_det>>, order |-> None])],
      [hasMetadata |-> TRUE,
       metadata |-> ("src" :> <<P_xat>>)
                    @@ ("dst" :> [dests |-> <<P_det>>, order |-> None])
                    @@ ("each" :> << <<P_xa, P_d>> >>)] }

\* the rules mappings read_rulesfile can return for the file
read_rulesfile(lines) ==
    LET names == rule_members(lines)
    IN  { [i \in 1..Len(names) |-> [name |-> names[i], rule |-> f[i]]] :
              f \in [1..Len(names) -> FileRuleObjects] }

\* The metadata dicts read_rulesfile can return: 'input_required' and
\* 'input_nonempty' default to the empty set, 'output_required' and
\* 'output_nonempty' are keys only when the rules file defines them.
Metas ==
    LET inputs(r, n) == ("input_required" :> r) @@ ("input_nonempty" :> n)
    IN  { inputs({}, {}),
          inputs({P_xat}, {}),
          inputs({}, {P_xat}),
          inputs({}, {}) @@ ("output_required" :> {})
                         @@ ("output_nonempty" :> {}),
          inputs({}, {}) @@ ("output_required" :> {P_det})
                         @@ ("output_nonempty" :> {}) }

---------------------------------------------------------------------------
(* required_exists *)

\* required_exists(dom, nonempty, required): `found` tells whether
\* dom.xpath(req) is non-empty for the required paths; dom_is_none whether
\* dom is None.  The loop over `nonempty` reads the undefined name xmlns.
required_exists(dom_is_none, nonempty, required, found) ==
    IF required # {} /\ dom_is_none THEN "AttributeError"
    ELSE IF required # {} /\ ~found THEN "InvalidPathException"
    ELSE IF nonempty # {} THEN "NameError"
    ELSE "none"

---------------------------------------------------------------------------
(* str methods used on paths *)

\* s.count(ch)
str_count(s, ch) == Cardinality({ i \in 1..Len(s) : s[i] = ch })

\* s.split(sep) for a separator of one character
RECURSIVE split(_, _)
split(s, sep) ==
    IF str_count(s, sep) = 0 THEN <<s>>
    ELSE LET i == CHOOSE k \in 1..Len(s) :
                      s[k] = sep /\ \A l \in 1..(k - 1) : s[l] # sep
         IN  <<SubSeq(s, 1, i - 1)>> \o split(SubSeq(s, i + 1, Len(s)), sep)

\* s.strip(ch)
RECURSIVE strip(_, _)
strip(s, ch) ==
    IF s # <<>> /\ Head(s) = ch THEN strip(Tail(s), ch)
    ELSE IF s # <<>> /\ s[Len(s)] = ch THEN strip(SubSeq(s, 1, Len(s) - 1), ch)
    ELSE s

\* list(filter(bool, strings))
RECURSIVE filter_bool(_)
filter_bool(strings) ==
    IF strings = <<>> THEN <<>>
    ELSE IF Head(strings) = <<>> THEN filter_bool(Tail(strings))
    ELSE <<Head(strings)>> \o filter_bool(Tail(strings))

\* the concatenation of a sequence of strings
RECURSIVE concat(_)
concat(strings) ==
    IF strings = <<>> THEN <<>> ELSE Head(strings) \o concat(Tail(strings))

\* a path segment as norm stores it: elem.split(':') for a segment with a
\* colon that is not its first character, whose first component is then a
\* str, else (None, elem)
segment_rep(elem) ==
    IF str_count(elem, ":") > 0 /\ elem[1] # ":"
    THEN LET parts == split(elem, ":")
         IN  <<Some(parts[1])>> \o Tail(parts)
    ELSE <<None, elem>>

\* base[0:len(ref)] == ref
list_prefix(ref, base) ==
    Len(ref) <= Len(base) /\ SubSeq(base, 1, Len(ref)) = ref

---------------------------------------------------------------------------
(* normalize_path.  A binding is a triple (path, name, uri); the xmlmap is *)
(* a dict from names to URIs.                                              *)

\* normalize_path.norm(p): the exception raised, the element segments and
\* the attribute: None, or (None, name), or (prefix, name)
normalize_path_norm(p) ==
    LET parts == split(p, "@")
        base == parts[1]
        attrs == Tail(parts)
        elements == filter_bool(split(strip(base, "/"), "/"))
        attre == split(attrs[1], ":")
    IN  IF attrs # <<>> /\ Len(attre) > 2
        THEN [exc |-> "AssertionError", rep |-> <<>>, attr |-> None]
        ELSE [exc |-> "none",
              rep |-> [i \in 1..Len(elements) |-> segment_rep(elements[i])],
              attr |-> IF attrs = <<>> THEN None
                       ELSE IF Len(attre) = 1 THEN <<None, attre[1]>>
                       ELSE <<Some(attre[1]), attre[2]>>]

binding_applies_always(ref, base) == TRUE

\* `if base[0:len(ref)] == ref`: the binding's path is a prefix of the
\* path, segment by segment, prefixes included
binding_applies(ref, base) == list_prefix(ref, base)

\* the loop `for path, name, uri in xmlns` from binding i on
RECURSIVE normalize_path_xmlmap(_, _, _, _)
normalize_path_xmlmap(base, xmlns, i, xmlmap) ==
    IF i > Len(xmlns) THEN [exc |-> "none", xmlmap |-> xmlmap]
    ELSE LET n == normalize_path_norm(xmlns[i][1])
         IN  IF n.exc # "none" THEN [exc |-> n.exc, xmlmap |-> xmlmap]
             ELSE normalize_path_xmlmap(base, xmlns, i + 1,
                      IF binding_applies(n.rep, base)
                      THEN (xmlns[i][2] :> xmlns[i][3]) @@ xmlmap
                      ELSE xmlmap)

\* the loop `for ns, element in base` from segment i on: the exception
\* raised and the path built
RECURSIVE normalize_path_elements(_, _, _, _)
normalize_path_elements(base, xmlmap, i, acc) ==
    IF i > Len(base) THEN [exc |-> "none", path |-> acc]
    ELSE IF Len(base[i]) # 2 THEN [exc |-> "ValueError", path |-> acc]
    ELSE LET ns == base[i][1]
             element == base[i][2]
         IN  IF ns # None /\ ns[1] # <<>>
             THEN IF ns[1] \in DOMAIN xmlmap
                  THEN normalize_path_elements(base, xmlmap, i + 1,
                           acc \o <<"/", "{">> \o xmlmap[ns[1]] \o <<"}">>
                               \o element)
                  ELSE [exc |-> "InvalidPathException", path |-> acc]
             ELSE normalize_path_elements(base, xmlmap, i + 1,
                      acc \o <<"/">> \o element)

\* normalize_path(xmlpath, xmlns): the exception raised, and the pair
\* returned: the normalized path (None when it raises) and the xmlmap
normalize_path(xmlpath, xmlns) ==
    LET failed(e) == [exc |-> e, path |-> None, xmlmap |-> EmptyDict]
        n == normalize_path_norm(xmlpath)
        m == normalize_path_xmlmap(n.rep, xmlns, 1, EmptyDict)
        els == normalize_path_elements(n.rep, m.xmlmap, 1, <<>>)
    IN  IF str_count(xmlpath, "@") > 1 THEN failed("AssertionError")
        ELSE IF n.exc # "none" THEN failed(n.exc)
        ELSE IF m.exc # "none" THEN failed(m.exc)
        ELSE IF els.exc # "none" THEN failed(els.exc)
        ELSE IF n.attr = None
        THEN [exc |-> "none", path |-> Some(els.path), xmlmap |-> m.xmlmap]
        ELSE IF n.attr[1] = None
        THEN [exc |-> "none",
              path |-> Some(els.path \o <<"/", "@">> \o n.attr[2]),
              xmlmap |-> m.xmlmap]
        ELSE IF n.attr[1][1] \in DOMAIN m.xmlmap
        THEN [exc |-> "none",
              path |-> Some(els.path \o <<"/", "@", "{">>
                            \o m.xmlmap[n.attr[1][1]] \o <<"}">> \o n.attr[2]),
              xmlmap |-> m.xmlmap]
        ELSE failed("InvalidPathException")

---------------------------------------------------------------------------
(* xml.namespaced_name *)

\* namespaced_name.norm(p): the segments of the part before '@'
namespaced_name_norm(p) ==
    LET base == strip(split(p, "@")[1], "/")
        fields == split(base, "/")
    IN  IF base = <<>> THEN <<>>
        ELSE [i \in 1..Len(fields) |-> segment_rep(fields[i])]

\* the loop `for path, name, uri in xmlns` from binding i on
RECURSIVE namespaced_name_xmlmap(_, _, _, _)
namespaced_name_xmlmap(ref, xmlns, i, xmlmap) ==
    IF i > Len(xmlns) THEN xmlmap
    ELSE namespaced_name_xmlmap(ref, xmlns, i + 1,
             IF list_prefix(namespaced_name_norm(xmlns[i][1]), ref)
             THEN (xmlns[i][2] :> xmlns[i][3]) @@ xmlmap
             ELSE xmlmap)

\* namespaced_name(xmlpath, xmlns): the exception raised and the name
\* returned (None when it raises)
namespaced_name(xmlpath, xmlns) ==
    LET failed(e) == [exc |-> e, name |-> None]
        parts == split(xmlpath, "@")
        attrs == Tail(parts)
        ref == namespaced_name_norm(parts[1])
        xmlmap == namespaced_name_xmlmap(ref, xmlns, 1, EmptyDict)
        \* `*n, attr = attrs[0].split(':')`
        attr_parts == split(attrs[1], ":")
        chosen == IF attrs # <<>>
                  THEN <<IF Len(attr_parts) > 1 THEN Some(attr_parts[1])
                         ELSE None,
                         attr_parts[Len(attr_parts)]>>
                  ELSE ref[Len(ref)]
    IN  IF xmlpath = <<>> THEN failed("AssertionError")
        ELSE IF attrs = <<>> /\ ref = <<>> THEN failed("IndexError")
        ELSE IF Len(chosen) # 2 THEN failed("ValueError")
        ELSE IF chosen[1] # None /\ chosen[1][1] # <<>>
        THEN IF chosen[1][1] \in DOMAIN xmlmap
             THEN [exc |-> "none",
                   name |-> Some(<<"{">> \o xmlmap[chosen[1][1]] \o <<"}">>
                                 \o chosen[2])]
             ELSE failed("InvalidPathException")
        ELSE [exc |-> "none", name |-> Some(chosen[2])]

---------------------------------------------------------------------------
(* The paths and bindings given to the namespace functions.  A name, a    *)
(* prefix and a URI are strings of one character.                         *)

NsPaths ==
    { <<"/", "n", ":", "a", "/", "n", ":", "b">>,
      <<"/", "a", "/", "n", ":", "b">>,
      <<"/", "a", "/", "b">>,
      <<"/", "n", ":", "a">>,
      <<"/", "a", "/", "m", ":", "b">>,
      <<"/", "a", "/", "b", "@", "k">>,
      <<"/", "a", "/", "b", "@", "n", ":", "k">>,
      <<"/", "n", ":", "a", "@", "n", ":", "k">> }

NsScopes ==
    { <<"/">>,
      <<"/", "a">>,
      <<"/", "n", ":", "a">>,
      <<"/", "b">>,
      <<"/", "a", "/", "b">> }

Bindings == { <<scope, <<name>>, <<"U">>>> : scope \in NsScopes,
                                             name \in {"n", "m"} }

XmlnsLists == UNION { [1..n -> Bindings] : n \in 0..MaxBindings }

---------------------------------------------------------------------------
(* Source documents.  An element has a tag, a text (None or a str), a     *)
(* dict of attributes and a list of children; an element of a tree is     *)
(* addressed by the child positions on the way from the root.             *)

Element(tag, text, attrib, children) ==
    [tag |-> tag, text |-> text, attrib |-> attrib, children |-> children]

TElements ==
    { Element(<<"t">>, text, EmptyDict, <<>>) : text \in {None, Some(<<"v">>)} }

AElements ==
    { Element(<<"a">>, None, attrib, children) :
          attrib \in {EmptyDict, <<"k">> :> <<"w">>},
          children \in {<<>>} \cup { <<t>> : t \in TElements } }

Docs ==
    { Element(<<"x">>, None, EmptyDict, children) :
          children \in UNION { [1..n -> AElements] : n \in 0..MaxChildren } }

\* the document read by run and batch_run and given to apply_rules
Doc0 ==
    LET a == Element(<<"a">>, None, EmptyDict,
                     <<Element(<<"t">>, Some(<<"v">>), EmptyDict, <<>>)>>)
    IN  Element(<<"x">>, None, EmptyDict, <<a, a>>)

\* the element of the tree at an address
RECURSIVE node_at(_, _)
node_at(dom, addr) ==
    IF addr = <<>> THEN dom ELSE node_at(dom.children[Head(addr)], Tail(addr))

\* the children with a given tag of the elements at `addrs`, in document
\* order: the XPath child step
RECURSIVE child_step(_, _, _)
child_step(dom, addrs, tag) ==
    IF addrs = <<>> THEN <<>>
    ELSE LET node == node_at(dom, Head(addrs))
             hits == { i \in 1..Len(node.children) : node.children[i].tag = tag }
             RECURSIVE from(_)
             from(i) == IF i > Len(node.children) THEN <<>>
                        ELSE (IF i \in hits THEN <<Head(addrs) \o <<i>>>>
                              ELSE <<>>) \o from(i + 1)
         IN  from(1) \o child_step(dom, Tail(addrs), tag)

\* the elements selected by the steps from step i on
RECURSIVE xpath_steps(_, _, _, _)
xpath_steps(dom, steps, i, addrs) ==
    IF i > Len(steps) THEN addrs
    ELSE xpath_steps(dom, steps, i + 1, child_step(dom, addrs, steps[i]))

\* dom.xpath(path) for an absolute path of child steps, with an attribute
\* step '@name' at most at its end: the addresses of the elements selected
\* by the child steps, in document order
xpath_elements(dom, path) ==
    LET steps == filter_bool(split(path, "/"))
        names == IF steps # <<>> /\ steps[Len(steps)][1] = "@"
                 THEN SubSeq(steps, 1, Len(steps) - 1) ELSE steps
    IN  IF names = <<>> \/ dom.tag # names[1] THEN <<>>
        ELSE xpath_steps(dom, names, 2, << <<>> >>)

\* dom.xpath(path) for a path that ends in '@name': the values of the
\* attribute on the elements that have it
xpath_attribute(dom, path) ==
    LET steps == filter_bool(split(path, "/"))
        name == Tail(steps[Len(steps)])
        addrs == xpath_elements(dom, path)
        RECURSIVE from(_)
        from(i) == IF i > Len(addrs) THEN <<>>
                   ELSE LET node == node_at(dom, addrs[i])
                        IN  (IF name \in DOMAIN node.attrib
                             THEN <<node.attrib[name]>> ELSE <<>>)
                            \o from(i + 1)
    IN  from(1)

\* `value or ''` for a value that is None or a str
or_empty(value) == IF value = None THEN <<>> ELSE value[1]

---------------------------------------------------------------------------
(* The readers of xml.py: the exception raised, the value returned (None  *)
(* when it raises) and the source tree after the call.                    *)

\* read_source(dom, path): dom.xpath(path) selects, nothing is written
\* a variant of read_source that detaches what it reads from the tree
read_source_detaching(dom, path) ==
    [exc |-> "none",
     value |-> Some(<<>>),
     dom |-> [dom EXCEPT !.children = <<>>]]

read_source(dom, path) ==
    LET val == xpath_attribute(dom, path)
        elements == xpath_elements(dom, path)
    IN  [exc |-> "none",
         value |-> Some(IF path = <<>> THEN <<>>
                        ELSE IF str_count(path, "@") > 0
                        THEN (IF val # <<>> THEN val[1] ELSE <<>>)
                        ELSE IF elements # <<>>
                        THEN or_empty(node_at(dom, elements[1]).text)
                        ELSE <<>>),
         dom |-> dom]

\* read_base_source(dom, path, bases): the call of traverse raises
read_base_source(dom, path, bases) ==
    [exc |-> xml_traverse, value |-> None, dom |-> dom]

\* strip_last_element(path): path.rfind('/') splits base and last
strip_last_element(path) ==
    LET slashes == { i \in 1..Len(path) : path[i] = "/" }
        index == IF slashes = {} THEN 0
                 ELSE CHOOSE i \in slashes : \A j \in slashes : j <= i
        last == SubSeq(path, index + 1, Len(path))
    IN  IF str_count(last, "@") > 0
        THEN [exc |-> "InvalidPathException", base |-> <<>>, last |-> <<>>]
        ELSE [exc |-> "none",
              base |-> IF index = 0 THEN <<>> ELSE SubSeq(path, 1, index - 1),
              last |-> last]

\* read_ambiguous_element(dom, path, bases), for a path whose last element
\* has a name: strip_last_element, then the call of traverse raises
read_ambiguous_element(dom, path, bases) ==
    LET stripped == strip_last_element(path)
    IN  IF stripped.exc # "none"
        THEN [exc |-> stripped.exc, value |-> None, dom |-> dom]
        ELSE [exc |-> xml_traverse, value |-> None, dom |-> dom]

\* the paths given to the readers: the empty path, element paths that
\* exist in some documents, attribute paths, and paths that exist in none
P_xa_k == <<"/", "x", "/", "a", "/", "@", "k">>
P_xat_k == <<"/", "x", "/", "a", "/", "t", "/", "@", "k">>
P_xb == <<"/", "x", "/", "b">>

ReadPaths == {<<>>, P_xa, P_xat, P_xa_k, P_xat_k, P_xb, P_yb}

\* the base-context chains given to the base-scoped accessors: none, the
\* first child of the root, and the second
BasesLists == {<<>>, << <<1>> >>, << <<2>> >>}

\* the source tree after one turn of `for obj in classified`: a call that
\* does not bind leaves it as it is, else the reader's body acts on it
run_object_source(obj, dom) ==
    IF obj.class = "basicrule"
    THEN IF Len(obj.src) > 0 /\ binds(Sig_read_source, Call_read_source)
         THEN read_source(dom, obj.src[1]).dom
         ELSE dom
    ELSE IF binds(Sig_read_ambiguous_element, Call_read_ambiguous_element)
    THEN read_ambiguous_element(dom, obj.srcbase, <<>>).dom
    ELSE dom

---------------------------------------------------------------------------
(* The writers of xml.py.  Each of them calls traverse. *)

\* write_destination(dom, path, value): the call of traverse raises
write_destination(dom, path, value) ==
    [exc |-> xml_traverse, value |-> None, dom |-> dom]

\* write_base_destination(dom, path, value, bases): the call of traverse
\* raises
write_base_destination(dom, path, value, bases) ==
    [exc |-> xml_traverse, value |-> None, dom |-> dom]

\* write_new_ambiguous_element(dom, path, bases): strip_last_element, the
\* test `if not last`, then the call of traverse raises
write_new_ambiguous_element(dom, path, bases) ==
    LET stripped == strip_last_element(path)
    IN  IF stripped.exc # "none"
        THEN [exc |-> stripped.exc, value |-> None, dom |-> dom]
        ELSE IF stripped.last = <<>>
        THEN [exc |-> "InvalidPathException", value |-> None, dom |-> dom]
        ELSE [exc |-> xml_traverse, value |-> None, dom |-> dom]

\* the destination trees given to the writers: no tree yet, a root d, and
\* a root d with a child e
DestTrees ==
    { None,
      Element(<<"d">>, None, EmptyDict, <<>>),
      Element(<<"d">>, None, EmptyDict,
              <<Element(<<"e">>, None, EmptyDict, <<>>)>>) }

\* the paths given to the writers: under the root d, under another first
\* segment, and an attribute
P_yd == <<"/", "y", "/", "d">>
P_de_k == <<"/", "d", "/", "e", "/", "@", "k">>

WritePaths == {P_d, P_de, P_det, P_yd, P_de_k}

---------------------------------------------------------------------------
(* The 'foreach' lists given to build_recursive_structure on its own: the  *)
(* two of its docstring, and lists over the paths of the rules.            *)

D_a  == <<"a">>
D_ab == <<"a", "b">>
D_ac == <<"a", "c">>
D_x  == <<"x">>
D_xy == <<"x", "y">>
D_xz == <<"x", "z">>

ForeachLists ==
    { << <<D_a, D_x>>, <<D_ab, D_xy>> >>,
      << <<D_a, D_x>>, <<D_ac, D_xz>> >>,
      << <<P_xa, P_d>> >>,
      << <<P_xa, P_de>> >>,
      << <<P_xa_b, P_de>> >>,
      << <<P_yb, P_de>> >>,
      << <<P_xa, P_d>>, <<P_xa_b, P_de>> >>,
      << <<P_xa, P_d>>, <<P_xab, P_de>> >>,
      << <<P_xa, P_d>>, <<P_xa, P_de>> >> }

\* the lists of foreach_rules: dicts of which the key 'foreach' is read
ForeachRules ==
    UNION { [1..n -> { [foreach |-> e] : e \in ForeachLists }] :
                n \in 1..MaxRules }

---------------------------------------------------------------------------
(* The entry points as a state machine. *)

\* the functions called on their own
ReaderEntries == {"read_source", "read_base_source", "read_ambiguous_element"}
NamespaceEntries == {"normalize_path", "namespaced_name"}
WriterEntries ==
    {"write_destination", "write_base_destination",
     "write_new_ambiguous_element"}
StructureEntries == {"build_recursive_structure"}

\* the arguments of a call that takes none of them
NoArguments ==
    [path |-> <<>>, bases |-> <<>>, xmlns |-> <<>>, dom |-> None,
     foreach_rules |-> <<>>]

Init ==
    /\ entry \in {"apply_rules", "run", "batch_run"}
                     \cup ReaderEntries \cup NamespaceEntries
                     \cup WriterEntries \cup StructureEntries
    /\ CASE entry = "apply_rules" ->
                /\ pc = "validate_rules"
                /\ file = <<>>
                /\ \E n \in 1..MaxRules :
                       \E f \in [1..n -> RuleObjects] :
                           rules = rules_mapping(f)
                /\ nmatches = 0
                /\ nout = 0
                /\ src_dom = Doc0
                /\ arg = NoArguments
         [] entry \in {"run", "batch_run"} ->
                /\ pc = "unique_function"
                /\ file \in Files
                /\ rules = <<>>
                /\ nmatches \in (IF entry = "batch_run" THEN 0..MaxMatches
                                 ELSE {0})
                /\ nout \in (IF entry = "batch_run" THEN 0..MaxMatches
                             ELSE {0})
                /\ src_dom = Doc0
                /\ arg = NoArguments
         [] entry \in ReaderEntries ->
                /\ pc = "call"
                /\ file = <<>> /\ rules = <<>> /\ nmatches = 0 /\ nout = 0
                /\ src_dom \in Docs
                /\ \E path \in (IF entry = "read_source" THEN ReadPaths
                                 ELSE ReadPaths \ {<<>>}) :
                       \E bases \in (IF entry = "read_source" THEN {<<>>}
                                     ELSE BasesLists) :
                           arg = [NoArguments EXCEPT !.path = path,
                                                     !.bases = bases]
         [] entry \in WriterEntries ->
                /\ pc = "call"
                /\ file = <<>> /\ rules = <<>> /\ nmatches = 0 /\ nout = 0
                /\ src_dom = Doc0
                /\ \E path \in WritePaths : \E dom \in DestTrees :
                       \E bases \in (IF entry = "write_destination"
                                     THEN {<<>>} ELSE BasesLists) :
                           arg = [NoArguments EXCEPT !.path = path,
                                                     !.bases = bases,
                                                     !.dom = dom]
         [] entry \in StructureEntries ->
                /\ pc = "call"
                /\ file = <<>> /\ rules = <<>> /\ nmatches = 0 /\ nout = 0
                /\ src_dom = Doc0
                /\ \E fr \in ForeachRules :
                       arg = [NoArguments EXCEPT !.foreach_rules = fr]
         [] OTHER ->
                /\ pc = "call"
                /\ file = <<>> /\ rules = <<>> /\ nmatches = 0 /\ nout = 0
                /\ src_dom = Doc0
                /\ \E path \in NsPaths : \E xmlns \in XmlnsLists :
                       arg = [NoArguments EXCEPT !.path = path,
                                                 !.xmlns = xmlns]
    /\ meta = EmptyDict
    /\ count = 0
    /\ classified = <<>>
    /\ pos = 1
    /\ target_dom = arg.dom
    /\ invoked = <<>>
    /\ loaded = FALSE
    /\ srcread = FALSE
    /\ written = 0
    /\ exc = "none"
    /\ at = "none"
    /\ result = None
    /\ last_output = None

inputs == <<entry, file, nmatches, nout>>
apply_state == <<classified, pos, target_dom, invoked>>
io_state == <<loaded, srcread, written>>
call_state == <<src_dom, arg, result, last_output>>

\* an exception leaves the entry point
Raise(e) == pc' = "raised" /\ exc' = e /\ at' = pc

Goto(label) == pc' = label /\ exc' = exc /\ at' = at

\* run, batch_run: unique_function(rules_filepath)
UniqueFunction ==
    /\ pc = "unique_function"
    /\ LET e == unique_function(file)
       IN  IF e # "none" THEN Raise(e) ELSE Goto("read_rulesfile")
    /\ UNCHANGED <<inputs, rules, meta, count, apply_state, io_state>>
    /\ UNCHANGED call_state

\* run, batch_run: rules, meta = read_rulesfile(rules_filepath)
ReadRulesfile ==
    /\ pc = "read_rulesfile"
    /\ loaded' = TRUE
    /\ IF rule_members(file) = <<>>
       THEN /\ Raise("RuledXmlException")
            /\ UNCHANGED <<rules, meta>>
       ELSE /\ rules' \in read_rulesfile(file)
            /\ meta' \in Metas
            /\ Goto("xml_read")
    /\ UNCHANGED <<inputs, count, apply_state, srcread, written>>
    /\ UNCHANGED call_state

\* run, batch_run: src_dom = xml.read(in_fd)
XmlRead ==
    /\ pc = "xml_read"
    /\ srcread' = TRUE
    /\ Goto(IF entry = "run" THEN "required_exists" ELSE "batch_loop")
    /\ UNCHANGED <<inputs, rules, meta, count, apply_state, loaded, written>>
    /\ UNCHANGED call_state

\* batch_run: `for element in src_dom.xpath(base)`, and the return
BatchLoop ==
    /\ pc = "batch_loop"
    /\ Goto(IF count < nmatches THEN "required_exists" ELSE "done")
    /\ UNCHANGED <<inputs, rules, meta, count, apply_state, io_state>>
    /\ UNCHANGED call_state

\* run, batch_run: required_exists(src_dom, meta['input_nonempty'],
\* meta['input_required'], filepath=infile)
RequiredExists ==
    /\ pc = "required_exists"
    /\ \E found \in BOOLEAN :
           LET e == required_exists(FALSE, meta["input_nonempty"],
                                    meta["input_required"], found)
           IN  IF e # "none" THEN Raise(e) ELSE Goto("validate_rules")
    /\ UNCHANGED <<inputs, rules, meta, count, apply_state, io_state>>
    /\ UNCHANGED call_state

\* apply_rules: validate_rules(rules)
ValidateRules ==
    /\ pc = "validate_rules"
    /\ LET e == validate_rules(rules)
       IN  IF e # "none" THEN Raise(e) ELSE Goto("classify_rules")
    /\ classified' = <<>>
    /\ pos' = 1
    /\ target_dom' = None
    /\ UNCHANGED <<inputs, rules, meta, count, invoked, io_state>>
    /\ UNCHANGED call_state

\* apply_rules: classified = classify_rules(rules)
ClassifyRules ==
    /\ pc = "classify_rules"
    /\ \E bases \in base_orders(rules) :
           LET c == classify_rules(rules, bases)
           IN  /\ IF c.exc = "loop" THEN Goto("hang")
                  ELSE IF c.exc # "none" THEN Raise(c.exc)
                  ELSE Goto("reorder_rules")
               /\ classified' = c.classified
    /\ UNCHANGED <<inputs, rules, meta, count, pos, target_dom, invoked,
                   io_state>>
    /\ UNCHANGED call_state

\* apply_rules: ordered = reorder_rules(classified)
ReorderRules ==
    /\ pc = "reorder_rules"
    /\ classified' = reorder_rules(classified)
    /\ Goto("run_rules")
    /\ UNCHANGED <<inputs, rules, meta, count, pos, target_dom, invoked,
                   io_state>>
    /\ UNCHANGED call_state

\* run_rules: one turn of `for obj in classified`
RunRulesStep ==
    /\ pc = "run_rules"
    /\ pos <= Len(classified)
    /\ \E output \in Outputs :
           LET r == run_object(classified[pos], output, target_dom)
           IN  /\ invoked' = invoked \o r.invoked
               /\ target_dom' = r.target_dom
               /\ IF r.exc # "none"
                  THEN Raise(r.exc) /\ pos' = pos
                  ELSE Goto("run_rules") /\ pos' = pos + 1
               /\ last_output' = IF r.invoked # None THEN output
                                 ELSE last_output
    /\ src_dom' = run_object_source(classified[pos], src_dom)
    /\ UNCHANGED <<inputs, rules, meta, count, classified, io_state, arg,
                   result>>

\* run_rules returns target_dom, and apply_rules returns it
RunRulesReturn ==
    /\ pc = "run_rules"
    /\ pos > Len(classified)
    /\ Goto(CASE entry = "apply_rules" -> "done"
              [] entry = "run" -> "xml_write"
              [] OTHER -> "output_required_exists")
    /\ UNCHANGED <<inputs, rules, meta, count, apply_state, io_state>>
    /\ UNCHANGED call_state

\* a variant of run that writes the output before the rules are applied
XmlWrite_before_apply_rules ==
    /\ entry = "run"
    /\ pc \in {"required_exists", "xml_write"}
    /\ IF pc = "required_exists"
       THEN Goto("validate_rules") /\ written' = written + 1
       ELSE IF target_dom = None
       THEN Raise("TypeError") /\ written' = written
       ELSE Goto("done") /\ written' = written + 1
    /\ UNCHANGED <<inputs, rules, meta, count, apply_state, loaded, srcread>>
    /\ UNCHANGED call_state

\* run: xml.write(target_dom, out_fd, encoding=...); lxml.etree.tostring
\* raises TypeError for None
XmlWrite ==
    /\ pc = "xml_write"
    /\ IF target_dom = None
       THEN Raise("TypeError") /\ written' = written
       ELSE Goto("done") /\ written' = written + 1
    /\ UNCHANGED <<inputs, rules, meta, count, apply_state, loaded, srcread>>
    /\ UNCHANGED call_state

\* batch_run: required_exists(target_dom, meta['output_nonempty'],
\* meta['output_required'])
OutputRequiredExists ==
    /\ pc = "output_required_exists"
    /\ IF "output_nonempty" \notin DOMAIN meta
          \/ "output_required" \notin DOMAIN meta
       THEN Raise("KeyError")
       ELSE \E found \in BOOLEAN :
                LET e == required_exists(target_dom = None,
                                         meta["output_nonempty"],
                                         meta["output_required"], found)
                IN  IF e # "none" THEN Raise(e) ELSE Goto("batch_write")
    /\ UNCHANGED <<inputs, rules, meta, count, apply_state, io_state>>
    /\ UNCHANGED call_state

\* batch_run: out_filepaths[count], open, xml.write, count += 1
BatchWrite ==
    /\ pc = "batch_write"
    /\ IF count >= nout
       THEN Raise("IndexError") /\ UNCHANGED <<count, written>>
       ELSE IF target_dom = None
       THEN Raise("TypeError") /\ UNCHANGED <<count, written>>
       ELSE /\ Goto("batch_loop")
            /\ written' = written + 1
            /\ count' = count + 1
    /\ UNCHANGED <<inputs, rules, meta, apply_state, loaded, srcread>>
    /\ UNCHANGED call_state

\* a call of read_source(dom, path) on its own
ReadSource ==
    /\ pc = "call" /\ entry = "read_source"
    /\ LET r == read_source(src_dom, arg.path)
       IN  /\ IF r.exc # "none" THEN Raise(r.exc) ELSE Goto("done")
           /\ result' = r.value
           /\ src_dom' = r.dom
    /\ UNCHANGED <<inputs, rules, meta, count, apply_state, io_state, arg,
                   last_output>>

\* a call of read_base_source(dom, path, bases) on its own
ReadBaseSource ==
    /\ pc = "call" /\ entry = "read_base_source"
    /\ LET r == read_base_source(src_dom, arg.path, arg.bases)
       IN  /\ IF r.exc # "none" THEN Raise(r.exc) ELSE Goto("done")
           /\ result' = r.value
           /\ src_dom' = r.dom
    /\ UNCHANGED <<inputs, rules, meta, count, apply_state, io_state, arg,
                   last_output>>

\* a call of read_ambiguous_element(dom, path, bases) on its own
ReadAmbiguousElement ==
    /\ pc = "call" /\ entry = "read_ambiguous_element"
    /\ LET r == read_ambiguous_element(src_dom, arg.path, arg.bases)
       IN  /\ IF r.exc # "none" THEN Raise(r.exc) ELSE Goto("done")
           /\ result' = r.value
           /\ src_dom' = r.dom
    /\ UNCHANGED <<inputs, rules, meta, count, apply_state, io_state, arg,
                   last_output>>

\* a call of normalize_path(xmlpath, xmlns) on its own; the value
\* returned is the normalized path (the xmlmap is left out)
NormalizePath ==
    /\ pc = "call" /\ entry = "normalize_path"
    /\ LET r == normalize_path(arg.path, arg.xmlns)
       IN  /\ IF r.exc # "none" THEN Raise(r.exc) ELSE Goto("done")
           /\ result' = r.path
    /\ UNCHANGED <<inputs, rules, meta, count, apply_state, io_state, arg,
                   src_dom, last_output>>

\* a call of xml.namespaced_name(xmlpath, xmlns) on its own
NamespacedName ==
    /\ pc = "call" /\ entry = "namespaced_name"
    /\ LET r == namespaced_name(arg.path, arg.xmlns)
       IN  /\ IF r.exc # "none" THEN Raise(r.exc) ELSE Goto("done")
           /\ result' = r.name
    /\ UNCHANGED <<inputs, rules, meta, count, apply_state, io_state, arg,
                   src_dom, last_output>>

\* a call of write_destination(dom, path, value) on its own
WriteDestination ==
    /\ pc = "call" /\ entry = "write_destination"
    /\ LET r == write_destination(target_dom, arg.path, <<"v">>)
       IN  /\ IF r.exc # "none" THEN Raise(r.exc) ELSE Goto("done")
           /\ result' = r.value
           /\ target_dom' = r.dom
    /\ UNCHANGED <<inputs, rules, meta, count, classified, pos, invoked,
                   io_state, arg, src_dom, last_output>>

\* a call of write_base_destination(dom, path, value, bases) on its own
WriteBaseDestination ==
    /\ pc = "call" /\ entry = "write_base_destination"
    /\ LET r == write_base_destination(target_dom, arg.path, <<"v">>,
                                       arg.bases)
       IN  /\ IF r.exc # "none" THEN Raise(r.exc) ELSE Goto("done")
           /\ result' = r.value
           /\ target_dom' = r.dom
    /\ UNCHANGED <<inputs, rules, meta, count, classified, pos, invoked,
                   io_state, arg, src_dom, last_output>>

\* a call of write_new_ambiguous_element(dom, path, bases) on its own
WriteNewAmbiguousElement ==
    /\ pc = "call" /\ entry = "write_new_ambiguous_element"
    /\ LET r == write_new_ambiguous_element(target_dom, arg.path, arg.bases)
       IN  /\ IF r.exc # "none" THEN Raise(r.exc) ELSE Goto("done")
           /\ result' = r.value
           /\ target_dom' = r.dom
    /\ UNCHANGED <<inputs, rules, meta, count, classified, pos, invoked,
                   io_state, arg, src_dom, last_output>>

\* a call of build_recursive_structure(rules) on its own, for one
\* iteration order of the set all_each_bases
BuildRecursiveStructure ==
    /\ pc = "call" /\ entry = "build_recursive_structure"
    /\ \E bases \in sorted_bases(all_each_bases(arg.foreach_rules)) :
           LET r == build_recursive_structure(bases)
           IN  /\ IF r.exc # "none" THEN Raise(r.exc) ELSE Goto("done")
               /\ result' = IF r.exc # "none" THEN None
                            ELSE Some(r.structure)
    /\ UNCHANGED <<inputs, rules, meta, count, apply_state, io_state, arg,
                   src_dom, last_output>>

Next ==
    \/ ReadSource
    \/ ReadBaseSource
    \/ ReadAmbiguousElement
    \/ NormalizePath
    \/ NamespacedName
    \/ WriteDestination
    \/ WriteBaseDestination
    \/ WriteNewAmbiguousElement
    \/ BuildRecursiveStructure
    \/ UniqueFunction
    \/ ReadRulesfile
    \/ XmlRead
    \/ BatchLoop
    \/ RequiredExists
    \/ ValidateRules
    \/ ClassifyRules
    \/ ReorderRules
    \/ RunRulesStep
    \/ RunRulesReturn
    \/ XmlWrite
    \/ OutputRequiredExists
    \/ BatchWrite

Spec == Init /\ [][Next]_vars

---------------------------------------------------------------------------
(* Vocabulary of the properties. *)

\* the statements of apply_rules and of its callers that follow the call
\* of validate_rules
AfterValidation ==
    {"classify_rules", "reorder_rules", "run_rules", "xml_write",
     "output_required_exists", "batch_write"}

\* validate_rules has returned without raising
ValidateReturned ==
    \/ pc \in AfterValidation \cup {"done", "hang"}
    \/ pc = "raised" /\ at \in AfterValidation

\* validate_rules has raised
ValidateRaised == pc = "raised" /\ at = "validate_rules"

\* the entry point has returned or raised
Finished == pc \in {"done", "raised"}

\* the exceptions of ruledxml.exceptions that validate_rules raises
DefinitionErrors ==
    {"InvalidRuleDestination", "TooManyRuleDestinations", "InvalidRuleForeach"}

\* the number of destinations a rule declares
DestinationCount(r) ==
    Len(Get(Get(r.rule.metadata, "dst", EmptyDict), "dests", <<>>))

\* every pair of the foreach list has two components
PairsBinary(each) == \A i \in 1..Len(each) : Len(each[i]) = 2

\* each outer source base is a whole-segment prefix of the next inner one
NestedStructurally(each) ==
    \A i \in 1..(Len(each) - 1) : StructuralPrefix(each[i][1], each[i + 1][1])

\* the rule shape of the specification, 4.3 (a) to (d)
WellFormedRule(r) ==
    /\ r.rule.hasMetadata
    /\ DestinationCount(r) = 1
    /\ has_each(r) =>
           LET each == r.rule.metadata["each"]
           IN  Len(each) >= 1 /\ PairsBinary(each) /\ NestedStructurally(each)

AllWellFormed == \A i \in 1..Len(rules) : WellFormedRule(rules[i])

---------------------------------------------------------------------------
(* C1.  validate_rules completes without raising for every rule set in     *)
(* which each rule has metadata, declares exactly one destination, and     *)
(* either declares no foreach list or declares a non-empty foreach list    *)
(* whose pairs all have two components and in which each outer source base *)
(* is a path prefix of the next inner source base.                         *)
C1_WellFormedRulesValidate ==
    (AllWellFormed /\ pc # "validate_rules" /\ rules # <<>>) => ~ValidateRaised

\* validation has passed a rule with two nested foreach pairs and a source
C1_Witness ==
    /\ ValidateReturned
    /\ AllWellFormed
    /\ \E i \in 1..Len(rules) :
           /\ has_each(rules[i])
           /\ Len(rules[i].rule.metadata["each"]) = 2
           /\ "src" \in DOMAIN rules[i].rule.metadata

---------------------------------------------------------------------------
\* the first rule validate_rules visits lacks metadata or a single
\* destination, or some later rule does
DestinationDefect(r) == ~r.rule.hasMetadata \/ DestinationCount(r) # 1

(* C2.  validate_rules raises a definition error for any rule set that     *)
(* contains a rule which has no metadata or whose number of declared       *)
(* destinations is not exactly 1.                                          *)
C2_DestinationDefectRaisesDefinitionError ==
    ((\E i \in 1..Len(rules) : DestinationDefect(rules[i]))
        /\ (ValidateReturned \/ ValidateRaised))
    => (ValidateRaised /\ exc \in DefinitionErrors)

\* a foreach list that is empty or holds a pair without two components
ForeachDefect(r) ==
    /\ has_each(r)
    /\ \/ Len(r.rule.metadata["each"]) = 0
       \/ ~PairsBinary(r.rule.metadata["each"])

(* C3.  validate_rules raises InvalidRuleForeach for any rule whose        *)
(* foreach list is present but empty, or in which any pair does not have   *)
(* exactly 2 components.  The rule is taken as the first of the set, with  *)
(* metadata and one destination, so that no other check precedes.          *)
C3_ForeachDefectRaisesInvalidRuleForeach ==
    (/\ Len(rules) >= 1
     /\ ValidateReturned \/ ValidateRaised
     /\ ~DestinationDefect(rules[1])
     /\ ForeachDefect(rules[1]))
    => (ValidateRaised /\ exc = "InvalidRuleForeach")

(* C4.  For a rule with two or more foreach pairs, validate_rules raises a *)
(* nesting error when some outer source base is not a structural path      *)
(* prefix of the next inner one, and passes the nesting check when every   *)
(* outer base is such a prefix, whatever the number of sources.  The rule  *)
(* is taken as the first of the set and free of the other defects.         *)
C4_NestingCheckedStructurally ==
    (/\ Len(rules) >= 1
     /\ ValidateReturned \/ ValidateRaised
     /\ ~DestinationDefect(rules[1])
     /\ has_each(rules[1])
     /\ Len(rules[1].rule.metadata["each"]) >= 2
     /\ PairsBinary(rules[1].rule.metadata["each"]))
    => IF NestedStructurally(rules[1].rule.metadata["each"])
       THEN Len(rules) = 1 => ~ValidateRaised
       ELSE ValidateRaised /\ exc = "InvalidRuleForeach"

(* C5.  If any rule of the set is invalid, apply_rules raises with zero    *)
(* rule invocations and no destination tree produced: validation of the    *)
(* whole set precedes the execution of any rule.                           *)
C5_InvalidSetNeverExecutes ==
    (entry = "apply_rules" /\ ~AllWellFormed)
    => (invoked = <<>> /\ target_dom = None /\ pc # "done")

---------------------------------------------------------------------------
\* two definitions of the file bind, at module level, the same name that
\* read_rulesfile takes for a rule
DuplicateRuleName(lines) ==
    \E i, j \in 1..Len(lines) :
        /\ i # j
        /\ lines[i].kind \in {"def", "def_in_block"}
        /\ lines[j].kind \in {"def", "def_in_block"}
        /\ lines[i].name = lines[j].name
        /\ starts_with_rule(lines[i].name)

(* C6.  When a rules file defines two rule functions with the same name,   *)
(* run and batch_run raise RuledXmlException before the rules file is      *)
(* loaded, before the source document is read, and before any rule is      *)
(* executed.                                                               *)
C6_DuplicateNameRaisesFirst ==
    (entry \in {"run", "batch_run"} /\ DuplicateRuleName(file)
        /\ pc # "unique_function")
    => /\ pc = "raised" /\ at = "unique_function"
       /\ exc = "RuledXmlException"
       /\ ~loaded /\ ~srcread /\ invoked = <<>> /\ written = 0

---------------------------------------------------------------------------
\* the order a rule declares with @destination(..., order=n), or None
ExplicitOrder(r) == Get(dst_of(r), "order", None)

RuleNamed(n) == rules[CHOOSE i \in 1..Len(rules) : rules[i].name = n]

\* every rule is a well-formed basic rule with an explicit order, and the
\* orders are pairwise distinct
BasicWithDistinctOrders ==
    /\ AllWellFormed
    /\ \A i \in 1..Len(rules) :
           ~has_each(rules[i]) /\ ExplicitOrder(rules[i]) # None
    /\ \A i, j \in 1..Len(rules) :
           i # j => ExplicitOrder(rules[i]) # ExplicitOrder(rules[j])

(* C7.  For a rule set of basic rules with pairwise distinct explicit      *)
(* orders, apply_rules invokes every rule once, in ascending order of the  *)
(* orders, whatever the order in which the rules are given.                *)
C7_BasicRulesInvokedAscending ==
    (entry = "apply_rules" /\ BasicWithDistinctOrders /\ Finished)
    => /\ Len(invoked) = Len(rules)
       /\ \A i, j \in 1..Len(invoked) :
              i < j => ExplicitOrder(RuleNamed(invoked[i]))[1]
                           < ExplicitOrder(RuleNamed(invoked[j]))[1]

---------------------------------------------------------------------------
\* the rule entries of a classified forest
RECURSIVE RuleEntries(_)
RuleEntries(list) ==
    UNION { IF "children" \in DOMAIN list[i]
            THEN RuleEntries(list[i].children)
            ELSE {list[i]} : i \in 1..Len(list) }

\* the top-level list and the children list of every iteration node
RECURSIVE SiblingLists(_)
SiblingLists(list) ==
    {list} \cup UNION { IF "children" \in DOMAIN list[i]
                        THEN SiblingLists(list[i].children)
                        ELSE {} : i \in 1..Len(list) }

\* classify_rules visits rule i before rule j: the basic rules in the
\* order of the rule set, then the foreach rules in that order
ProcessedBefore(i, j) ==
    \/ ~has_each(rules[i]) /\ has_each(rules[j])
    \/ has_each(rules[i]) = has_each(rules[j]) /\ i < j

(* C8.  classify_rules gives a rule its explicit order as its order key    *)
(* when one is declared, gives every rule without an explicit order a key  *)
(* strictly greater than every explicit order in the rule set, and gives   *)
(* later-processed rules without an order larger keys.                     *)
C8_ExplicitOrderIsKey ==
    \A e \in RuleEntries(classified) :
        LET o == ExplicitOrder(RuleNamed(e.name))
        IN  IF o # None THEN e.dorder = o[1]
            ELSE /\ \A j \in 1..Len(rules) :
                        ExplicitOrder(rules[j]) # None
                            => e.dorder > ExplicitOrder(rules[j])[1]
                 /\ \A f \in RuleEntries(classified) :
                        \A i, j \in 1..Len(rules) :
                            (/\ rules[i].name = e.name
                             /\ rules[j].name = f.name
                             /\ ExplicitOrder(rules[j]) = None
                             /\ ProcessedBefore(i, j))
                            => e.dorder < f.dorder

---------------------------------------------------------------------------
\* the indices of the rule entries of a sibling list
RulePositions(list) == { i \in 1..Len(list) : "dorder" \in DOMAIN list[i] }

\* the rule entries of the list have pairwise distinct order keys
DistinctKeys(list) ==
    \A i, j \in RulePositions(list) : i # j => list[i].dorder # list[j].dorder

\* the rule entries of the list stand in strictly ascending key order
AscendingKeys(list) ==
    \A i, j \in RulePositions(list) : i < j => list[i].dorder < list[j].dorder

\* reorder_rules has returned
ReorderReturned ==
    \/ pc \in {"run_rules", "xml_write", "output_required_exists",
               "batch_write", "done"}
    \/ pc = "raised" /\ at \in {"run_rules", "xml_write",
                                "output_required_exists", "batch_write"}

\* the rule entries classify_rules returns have pairwise distinct keys
\* within every sibling list, and reorder_rules leaves them in key order
KeysOrderSiblings ==
    \A list \in SiblingLists(classified) :
        /\ DistinctKeys(list)
        /\ ReorderReturned => AscendingKeys(list)

(* C9 as stated.  Within every sibling list that classify_rules returns,   *)
(* the order keys of the rule entries are pairwise distinct, so the        *)
(* result of reorder_rules on the list does not depend on the order in     *)
(* which the entries were appended.                                        *)
C9_SiblingKeysDistinct == KeysOrderSiblings

\* the basic rules that declare an order declare pairwise distinct ones
BasicOrdersDistinct ==
    \A i, j \in 1..Len(rules) :
        (/\ i # j
         /\ ~has_each(rules[i]) /\ ~has_each(rules[j])
         /\ ExplicitOrder(rules[i]) # None)
        => ExplicitOrder(rules[i]) # ExplicitOrder(rules[j])

(* C9, amended.  When the explicit orders declared by the basic rules are  *)
(* pairwise distinct, the order keys of the rule entries are pairwise      *)
(* distinct within every sibling list that classify_rules returns, and     *)
(* reorder_rules leaves the rule entries of every list in ascending key    *)
(* order, whatever the order in which they were appended.                  *)
C9_SiblingKeysDistinctForDistinctOrders ==
    BasicOrdersDistinct => KeysOrderSiblings

\* reorder_rules has exchanged two basic rules, one keyed by its explicit
\* order and one by the counter
C9_Witness ==
    /\ ReorderReturned
    /\ BasicOrdersDistinct
    /\ Len(rules) = 2 /\ Len(classified) = 2
    /\ ExplicitOrder(rules[1]) = None
    /\ ExplicitOrder(rules[2]) # None
    /\ classified[1].name = rules[2].name
    /\ classified[2].name = rules[1].name
    /\ classified[1].dorder < classified[2].dorder

---------------------------------------------------------------------------
\* every rule is a well-formed foreach rule with a single pair
SingleLevelForeach ==
    /\ AllWellFormed
    /\ \A i \in 1..Len(rules) :
           has_each(rules[i]) /\ Len(rules[i].rule.metadata["each"]) = 1

(* C10.  A run over a single-level foreach rule set whose source document  *)
(* has n matches of the source base returns a destination tree with        *)
(* exactly n destination-base elements, among them none when n = 0: the    *)
(* run returns and raises nothing.                                         *)
C10_SingleLevelForeachReturns ==
    (entry = "apply_rules" /\ rules # <<>> /\ SingleLevelForeach /\ Finished)
    => (pc = "done" /\ exc = "none")

---------------------------------------------------------------------------
\* a path that ends in an element
ElementPath(path) == path # <<>> /\ str_count(path, "@") = 0

\* the element at addr lies under every element of the base-context chain
UnderBases(addr, bases) ==
    \A i \in 1..Len(bases) : list_prefix(bases[i], addr)

\* the elements that match the path under the chain, in document order
ExpectedMatches(dom, path, bases) ==
    SelectSeq(xpath_elements(dom, path), LAMBDA a : UnderBases(a, bases))

\* the call of a function on its own has returned or raised
CallFinished ==
    /\ entry \in ReaderEntries \cup NamespaceEntries \cup WriterEntries
                     \cup StructureEntries
    /\ pc # "call"

(* C11.  For an iteration node, read_ambiguous_element returns every       *)
(* source element that matches sourceBase and lies under the current       *)
(* source base-context chain, in document order, also when an              *)
(* intermediate segment matches several siblings; the children of the node *)
(* are executed once for each element returned.  Stated for the call of    *)
(* read_ambiguous_element: it returns, and returns these elements.         *)
C11_ReadAmbiguousElementReturnsMatches ==
    (entry = "read_ambiguous_element" /\ CallFinished /\ ElementPath(arg.path))
    => /\ exc = "none"
       /\ result = Some(ExpectedMatches(src_dom, arg.path, arg.bases))

\* the names of the foreach rules of the rule set
ForeachRuleNames == { rules[i].name : i \in { j \in 1..Len(rules) :
                                                  has_each(rules[j]) } }

(* C12.  In repetition k of an iteration node, the write of a foreach-rule *)
(* leaf changes only the subtree of the destination-base element created   *)
(* for repetition k, and the element it writes into is part of the         *)
(* destination tree run_rules returns.  Stated for a run over well-formed  *)
(* rules: it returns, every foreach rule was invoked, and a value returned *)
(* by the rule invoked last is in a destination tree.                      *)
C12_LeafWritesReachReturnedTree ==
    (entry = "apply_rules" /\ AllWellFormed /\ ForeachRuleNames # {}
        /\ Finished)
    => /\ exc = "none"
       /\ \A n \in ForeachRuleNames : \E i \in 1..Len(invoked) : invoked[i] = n
       /\ last_output # None => target_dom # None

\* every rule is a basic rule with one source and a destination path of
\* as many segments as the source path
IdentityRuleSet ==
    /\ AllWellFormed
    /\ \A i \in 1..Len(rules) :
           LET md == rules[i].rule.metadata
           IN  /\ ~has_each(rules[i])
               /\ Len(Get(md, "src", <<>>)) = 1
               /\ Len(Segments(md["src"][1]))
                      = Len(Segments(md["dst"]["dests"][1]))

(* C13.  For a rule set made only of basic identity rules, after run_rules *)
(* the text read at every destination path equals the text read at the     *)
(* corresponding source path of the source tree.  Stated for what it needs *)
(* first: the run returns a destination tree after invoking every rule.    *)
C13_IdentityRulesReturnTree ==
    (entry = "apply_rules" /\ rules # <<>> /\ IdentityRuleSet /\ Finished)
    => /\ exc = "none"
       /\ Len(invoked) = Len(rules)
       /\ target_dom # None

\* nothing in the tree is at the path
MissingIn(dom, path) ==
    IF str_count(path, "@") > 0 THEN xpath_attribute(dom, path) = <<>>
    ELSE xpath_elements(dom, path) = <<>>

(* C14.  Reading a source path that does not exist in the source tree      *)
(* returns the empty string and never raises, for read_source and for      *)
(* read_base_source, for paths that end in an element and for paths that   *)
(* end in an attribute absent from an existing element.                    *)
C14_MissingPathReadsEmpty ==
    (entry \in {"read_source", "read_base_source"} /\ CallFinished
        /\ arg.path # <<>> /\ MissingIn(src_dom, arg.path))
    => (exc = "none" /\ result = Some(<<>>))

\* the part of C14 about read_source
ReadSourceMissingPathReadsEmpty ==
    (entry = "read_source" /\ CallFinished /\ MissingIn(src_dom, arg.path))
    => (exc = "none" /\ result = Some(<<>>))

---------------------------------------------------------------------------
(* C15.  When a rule implementation returns None, run_rules leaves the     *)
(* destination tree unchanged by that rule: no element is created, no text *)
(* and no attribute is set, and the destination tree passed on to the next *)
(* rule is the one that was passed in.  In every step of run_rules that    *)
(* invokes a rule which returns None, target_dom keeps its value, nothing  *)
(* is raised and the loop goes on to the next object.                      *)
C15_NoneOutputLeavesTree ==
    [][(pc = "run_rules" /\ invoked' # invoked /\ last_output' = None)
           => /\ target_dom' = target_dom
              /\ exc' = "none"
              /\ pc' = "run_rules"
              /\ pos' = pos + 1]_vars

\* a rule was invoked and returned None, and run_rules has gone on to the
\* second object with the destination tree it began with
C15_Witness ==
    /\ pc = "run_rules"
    /\ pos = 2
    /\ Len(invoked) = 1
    /\ last_output = None
    /\ target_dom = None
    /\ Len(classified) = 2

---------------------------------------------------------------------------
\* the local names of the element segments of a path
LocalNames(path) ==
    LET rep == normalize_path_norm(path).rep
    IN  [i \in 1..Len(rep) |-> rep[i][Len(rep[i])]]

\* the binding's scope path is a prefix of the path, compared by local
\* name; the root scope '/' has no segment and is a prefix of every path
ScopeApplies(binding, path) ==
    list_prefix(LocalNames(binding[1]), LocalNames(path))

\* the bindings of the list that apply to the path and declare the prefix
Declaring(prefix, path, xmlns) ==
    { i \in 1..Len(xmlns) :
          xmlns[i][2] = prefix /\ ScopeApplies(xmlns[i], path) }

\* the prefixes used by the element segments and the trailing attribute
UsedPrefixes(path) ==
    LET n == normalize_path_norm(path)
    IN  { n.rep[i][1][1] : i \in { j \in 1..Len(n.rep) : n.rep[j][1] # None } }
            \cup (IF n.attr # None /\ n.attr[1] # None THEN {n.attr[1][1]}
                  ELSE {})

\* the name a path ends in, the attribute if it has one: (prefix, local)
FinalName(path) ==
    LET n == normalize_path_norm(path)
    IN  IF n.attr # None THEN n.attr ELSE n.rep[Len(n.rep)]

\* the URI of the last binding that applies and declares the prefix
DeclaredUri(prefix, path, xmlns) ==
    LET d == Declaring(prefix, path, xmlns)
    IN  xmlns[CHOOSE i \in d : \A j \in d : j <= i][3]

(* C16.  Namespace resolution applies a binding (scopePath, prefix, uri)   *)
(* to a path whenever the segments of the scope path are a structural      *)
(* prefix of the segment chain of the path compared by local name, also    *)
(* when the segments of the path carry prefixes: namespaced_name returns   *)
(* the name the path ends in qualified by the URI, and normalize_path      *)
(* resolves a path all of whose prefixes are so declared.                  *)
C16_BindingAppliesByLocalName ==
    (CallFinished /\ entry \in NamespaceEntries
        /\ \A prefix \in UsedPrefixes(arg.path) :
               Declaring(prefix, arg.path, arg.xmlns) # {})
    => /\ exc = "none"
       /\ (entry = "namespaced_name" /\ FinalName(arg.path)[1] # None)
              => result = Some(<<"{">>
                     \o DeclaredUri(FinalName(arg.path)[1][1], arg.path,
                                    arg.xmlns)
                     \o <<"}">> \o FinalName(arg.path)[2])

(* C17.  normalize_path raises InvalidPathException for every path in      *)
(* which an element segment or the trailing attribute uses a prefix that   *)
(* no applicable binding (a root-scope binding or a binding whose scope is *)
(* a prefix of the path) declares, and returns no normalized path then.    *)
C17_UndeclaredPrefixRaises ==
    (CallFinished /\ entry = "normalize_path"
        /\ \E prefix \in UsedPrefixes(arg.path) :
               Declaring(prefix, arg.path, arg.xmlns) = {})
    => (pc = "raised" /\ exc = "InvalidPathException" /\ result = None)

\* normalize_path has raised for '/a/n:b' although a binding declares n,
\* for the scope '/b', which is no prefix of the path
C17_Witness ==
    /\ entry = "normalize_path"
    /\ pc = "raised" /\ exc = "InvalidPathException" /\ result = None
    /\ arg.path = <<"/", "a", "/", "n", ":", "b">>
    /\ arg.xmlns = << <<<<"/", "b">>, <<"n">>, <<"U">>>> >>

---------------------------------------------------------------------------
(* C18.  run emits no output on failure: xml.write is reached only from    *)
(* the return of apply_rules, after unique_function, read_rulesfile,       *)
(* xml.read and required_exists have returned, the output is written by    *)
(* xml.write alone, and a step that raises leaves the output as it was.    *)
C18_RunWritesOnlyAfterAllReturned ==
    [][entry = "run"
           => /\ (pc' = "xml_write" /\ pc # "xml_write")
                     => /\ pc = "run_rules" /\ pos > Len(classified)
                        /\ loaded /\ srcread /\ exc = "none"
              /\ written' # written => (pc = "xml_write" /\ pc' = "done")
              /\ pc' = "raised" => written' = written /\ written' = 0]_vars

\* a run has loaded the rules, read the source, and failed inside
\* apply_rules, in run_rules, with nothing written
C18_Witness ==
    /\ entry = "run"
    /\ pc = "raised" /\ at = "run_rules"
    /\ loaded /\ srcread
    /\ written = 0

(* C19.  batch_run applies the rule set once per element matched by the   *)
(* base path and writes the k-th tree to the k-th output path, for every   *)
(* number of matches, also fewer or more than the output paths: the write  *)
(* of a tree always has its path, and a batch that has ended has written   *)
(* one tree per matched element.                                           *)
C19_BatchRunWritesEachMatch ==
    entry = "batch_run"
    => /\ pc = "batch_write" => count < nout
       /\ at = "batch_write" => exc # "IndexError"
       /\ pc = "done" => (count = nmatches /\ written = nmatches)

(* C20.  The source tree is never changed by a run: no step of             *)
(* apply_rules, run or batch_run, and no read of the source, changes the   *)
(* source tree.                                                            *)
C20_SourceTreeUnchanged ==
    [][src_dom' = src_dom]_vars

\* apply_rules has invoked a rule function and ended, and the source
\* tree is the one it was given
C20_Witness ==
    /\ entry = "apply_rules"
    /\ Finished /\ invoked # <<>>
    /\ src_dom = Doc0

---------------------------------------------------------------------------
\* an iteration node as build_recursive_structure creates it
IterationNode(srcbase, dstbase, children) ==
    [class |-> "iteration", srcbase |-> srcbase, dstbase |-> dstbase,
     children |-> children]

\* the two rules of the docstring of build_recursive_structure
DocRule1 == [foreach |-> << <<D_a, D_x>>, <<D_ab, D_xy>> >>]
DocRule2 == [foreach |-> << <<D_a, D_x>>, <<D_ac, D_xz>> >>]

\* build_recursive_structure has returned
StructureBuilt ==
    entry = "build_recursive_structure" /\ pc = "done" /\ result # None

(* C21.  build_recursive_structure applied to two rules with the foreach   *)
(* lists [('a','x'),('ab','xy')] and [('a','x'),('ac','xz')] returns a     *)
(* forest with exactly one root, for the base ('a','x'), that has exactly  *)
(* two children, ('ab','xy') and ('ac','xz') in that order, each with an   *)
(* empty children list.                                                    *)
C21_DocstringForest ==
    (entry = "build_recursive_structure" /\ CallFinished
        /\ arg.foreach_rules \in {<<DocRule1, DocRule2>>,
                                  <<DocRule2, DocRule1>>})
    => /\ exc = "none"
       /\ result = Some(<< IterationNode(D_a, D_x,
                               << IterationNode(D_ab, D_xy, <<>>),
                                  IterationNode(D_ac, D_xz, <<>>) >>) >>)

\* the call for the two rules of the docstring has returned a forest of
\* one root with two children
C21_Witness ==
    /\ StructureBuilt
    /\ arg.foreach_rules = <<DocRule1, DocRule2>>
    /\ Len(result[1]) = 1
    /\ Len(result[1][1].children) = 2

---------------------------------------------------------------------------
\* the addresses of the entries of a classified list: <<i>> is entry i of
\* the list, addr \o <<i>> entry i of the children list of the entry at addr
RECURSIVE EntryAddrs(_)
EntryAddrs(list) ==
    UNION { {<<i>>} \cup
            (IF "children" \in DOMAIN list[i]
             THEN { <<i>> \o a : a \in EntryAddrs(list[i].children) }
             ELSE {}) : i \in 1..Len(list) }

RECURSIVE EntryAt(_, _)
EntryAt(list, addr) ==
    IF Len(addr) = 1 THEN list[addr[1]]
    ELSE EntryAt(list[addr[1]].children, Tail(addr))

\* the addresses of the iteration nodes
NodeAddrs(list) ==
    { a \in EntryAddrs(list) : "children" \in DOMAIN EntryAt(list, a) }

\* the address of the entry whose children list holds the entry at addr
Parent(addr) == SubSeq(addr, 1, Len(addr) - 1)

\* the permutations of a list
RulePermutations(seq) ==
    { [i \in DOMAIN seq |-> seq[f[i]]] :
          f \in { g \in [DOMAIN seq -> DOMAIN seq] :
                      \A i, j \in DOMAIN seq : i # j => g[i] # g[j] } }

\* the forests build_recursive_structure can return for a list of rules
Forests(foreach_rules) ==
    { build_recursive_structure(bases).structure :
          bases \in sorted_bases(all_each_bases(foreach_rules)) }

(* C22.  The iteration forest returned by build_recursive_structure is the *)
(* same for every permutation of the rules list: the forest returned for   *)
(* a list is the only forest that is returned for any permutation of it.   *)
C22_ForestIndependentOfRuleOrder ==
    StructureBuilt
    => \A permuted \in RulePermutations(arg.foreach_rules) :
           Forests(permuted) = {result[1]}

\* classify_rules has returned
ClassifyReturned ==
    /\ rules # <<>>
    /\ \/ pc \in {"reorder_rules", "run_rules", "xml_write",
                  "output_required_exists", "batch_write"}
       \/ pc = "done" /\ entry = "apply_rules"
       \/ pc = "raised" /\ at \in {"run_rules", "xml_write",
                                   "output_required_exists", "batch_write"}

\* the addresses of the foreach-rule leaves that carry the name
LeafAddrs(list, name) ==
    { a \in EntryAddrs(list) :
          /\ EntryAt(list, a).class = "foreach-rule"
          /\ EntryAt(list, a).name = name }

(* C23.  In the classified program every foreach rule appears as exactly   *)
(* one foreach-rule leaf, and that leaf is in the children list of the     *)
(* iteration node whose source base and destination base both equal the    *)
(* rule's last declared foreach pair, also when two declared pairs have    *)
(* the same source base and different destination bases.                   *)
C23_LeafUnderMostNestedPair ==
    ClassifyReturned
    => \A i \in { j \in 1..Len(rules) : has_each(rules[j]) } :
           LET each == rules[i].rule.metadata["each"]
               last == each[Len(each)]
               leaves == LeafAddrs(classified, rules[i].name)
           IN  /\ Cardinality(leaves) = 1
               /\ \A a \in leaves :
                      /\ Len(a) >= 2
                      /\ EntryAt(classified, Parent(a)).srcbase = last[1]
                      /\ EntryAt(classified, Parent(a)).dstbase = last[2]

\* inner has the segments of outer as a prefix and at least one more
StrictExtension(outer, inner) ==
    /\ StructuralPrefix(outer, inner)
    /\ Len(Segments(inner)) > Len(Segments(outer))

(* C24.  In every forest built by build_recursive_structure the source     *)
(* base of each child iteration node is a strict structural extension of   *)
(* its parent's source base: the parent's segments and at least one more   *)
(* whole segment.                                                          *)
C24_ChildExtendsParent ==
    StructureBuilt
    => \A a \in NodeAddrs(result[1]) :
           Len(a) >= 2
           => StrictExtension(EntryAt(result[1], Parent(a)).srcbase,
                              EntryAt(result[1], a).srcbase)

\* the addresses of the iteration nodes for the pair
NodesFor(list, pair) ==
    { a \in NodeAddrs(list) :
          /\ EntryAt(list, a).srcbase = pair[1]
          /\ EntryAt(list, a).dstbase = pair[2] }

(* C25.  In the forest built by build_recursive_structure each distinct    *)
(* (sourceBase, destinationBase) pair declared by any rule occurs as       *)
(* exactly one iteration node, however many rules declare it, and the      *)
(* forest has no iteration node for a pair that no rule declares.          *)
C25_OneNodePerDeclaredPair ==
    StructureBuilt
    => LET declared == all_each_bases(arg.foreach_rules)
       IN  /\ \A pair \in declared :
                  Cardinality(NodesFor(result[1], pair)) = 1
           /\ \A a \in NodeAddrs(result[1]) :
                  <<EntryAt(result[1], a).srcbase,
                    EntryAt(result[1], a).dstbase>> \in declared

\* two rules declare the pair ('/x/a', '/d'), one of them a second pair
\* too, and the forest returned has two nodes
C25_Witness ==
    /\ StructureBuilt
    /\ Len(arg.foreach_rules) = 2
    /\ \A i \in 1..2 : arg.foreach_rules[i].foreach[1] = <<P_xa, P_d>>
    /\ Cardinality(NodeAddrs(result[1])) = 2

---------------------------------------------------------------------------
(* C28.  classify_rules terminates for every rule set accepted by          *)
(* validate_rules: it neither runs for ever nor leaves by an exception,    *)
(* and the lookup of every foreach rule reaches a node whose source base   *)
(* equals the rule's most deeply nested source base, also when several     *)
(* pairs share a source base or one source base is a string prefix of      *)
(* another.                                                                *)
C28_ClassifyTerminates ==
    (entry = "apply_rules" /\ ValidateReturned)
    => /\ pc # "hang"
       /\ ~(pc = "raised" /\ at = "classify_rules")
       /\ ClassifyReturned
              => \A i \in { j \in 1..Len(rules) : has_each(rules[j]) } :
                     LET each == rules[i].rule.metadata["each"]
                     IN  \A a \in LeafAddrs(classified, rules[i].name) :
                             /\ Len(a) >= 2
                             /\ EntryAt(classified, Parent(a)).srcbase
                                    = each[Len(each)][1]

\* classify_rules runs for ever on a rule set that validate_rules accepted
ClassifyHangs == entry = "apply_rules" /\ pc = "hang"

\* classify_rules raises KeyError on a rule set of well-formed rules
ClassifyKeyError ==
    /\ entry = "apply_rules" /\ AllWellFormed
    /\ pc = "raised" /\ at = "classify_rules" /\ exc = "KeyError"

---------------------------------------------------------------------------
\* the entry is an iteration node
IsNode(v) == "children" \in DOMAIN v

\* the iteration nodes of a classified list, without the rule entries
RECURSIVE NodesOnly(_)
NodesOnly(list) ==
    LET nodes == SelectSeq(list, IsNode)
    IN  [i \in 1..Len(nodes) |->
            [nodes[i] EXCEPT !.children = NodesOnly(@)]]

\* in the list every iteration node comes after every rule entry
RulesBeforeNodes(list) ==
    \A i, j \in 1..Len(list) :
        (IsNode(list[i]) /\ ~IsNode(list[j])) => j < i

(* C29.  In the program returned by reorder_rules iteration nodes sort as  *)
(* infinity: every top-level iteration node comes after every basic rule,  *)
(* inside every children list every nested iteration node comes after      *)
(* every foreach-rule leaf, and the iteration nodes among themselves keep  *)
(* the order in which build_recursive_structure inserted them.             *)
C29_IterationNodesSortLast ==
    [][pc = "reorder_rules"
           => /\ \A list \in SiblingLists(classified') :
                     RulesBeforeNodes(list)
              /\ NodesOnly(classified') = NodesOnly(classified)]_vars

\* reorder_rules has returned a program in which a foreach-rule leaf
\* stands before a nested iteration node of the same children list
C29_Witness ==
    /\ ReorderReturned
    /\ \E list \in SiblingLists(classified) :
           \E i, j \in 1..Len(list) :
               /\ i < j
               /\ ~IsNode(list[i]) /\ list[i].class = "foreach-rule"
               /\ IsNode(list[j])

---------------------------------------------------------------------------
\* The walk of traverse from the element at addr over the segments from
\* segment i on, with the ambiguity policy base_or_first and a
\* missing-child policy that aborts: the address reached, or None when a
\* segment matches no child.
RECURSIVE PolicyWalk(_, _, _, _, _)
PolicyWalk(dom, names, i, addr, bases) ==
    IF i > Len(names) THEN Some(addr)
    ELSE LET options == child_step(dom, <<addr>>, names[i])
             members == { k \in 1..Len(options) :
                              \E b \in 1..Len(bases) : bases[b] = options[k] }
         IN  IF options = <<>> THEN None
             ELSE IF Len(options) = 1
             THEN PolicyWalk(dom, names, i + 1, options[1], bases)
             ELSE IF members # {}
             THEN PolicyWalk(dom, names, i + 1,
                      options[CHOOSE k \in members : \A l \in members : k <= l],
                      bases)
             ELSE PolicyWalk(dom, names, i + 1, options[1], bases)

\* the walk over an element path: the first segment names the root, or
\* else is looked up among the children of the root
TraverseWalk(dom, path, bases) ==
    LET names == filter_bool(split(path, "/"))
    IN  IF names # <<>> /\ names[1] = dom.tag
        THEN PolicyWalk(dom, names, 2, <<>>, bases)
        ELSE PolicyWalk(dom, names, 1, <<>>, bases)

(* C26.  During a base-scoped traversal, when more than one sibling        *)
(* matches the next path segment the walk continues at the first           *)
(* candidate, in document order, that is a member of the active            *)
(* base-context chain, and at the first candidate when none is a member;   *)
(* when exactly one sibling matches, that sibling is taken.  Stated for    *)
(* read_base_source: it returns the text of the element this walk reaches. *)
C26_AmbiguityPolicy ==
    (entry = "read_base_source" /\ CallFinished /\ ElementPath(arg.path)
        /\ TraverseWalk(src_dom, arg.path, arg.bases) # None)
    => /\ exc = "none"
       /\ result = Some(or_empty(node_at(src_dom,
                        TraverseWalk(src_dom, arg.path, arg.bases)[1]).text))

\* the path that the reader hands to traverse
TraversedPath(reader, path) ==
    IF reader = "read_ambiguous_element" THEN strip_last_element(path).base
    ELSE path

(* C27.  When the missing-child policy of traverse signals abort at some   *)
(* path segment, traverse stops at that segment and returns (root, None):  *)
(* the finish policy is not invoked and the tree is left unchanged.        *)
(* Stated for the readers whose policy aborts: read_base_source then       *)
(* returns '' and read_ambiguous_element returns [], without raising.      *)
C27_AbortReturnsNone ==
    (entry \in {"read_base_source", "read_ambiguous_element"}
        /\ CallFinished /\ ElementPath(arg.path)
        /\ TraverseWalk(src_dom, TraversedPath(entry, arg.path), arg.bases)
               = None)
    => (exc = "none" /\ result = Some(<<>>))

\* the root of the tree is the root given, with the children it had
RootKept(given, tree) ==
    /\ tree # None
    /\ tree.tag = given.tag
    /\ Len(tree.children) >= Len(given.children)
    /\ \A i \in 1..Len(given.children) :
           tree.children[i].tag = given.children[i].tag

(* C30.  Once a write has created the destination root, the root is never  *)
(* replaced: every later write_destination, write_base_destination and     *)
(* write_new_ambiguous_element returns or extends that same root, also     *)
(* when the first segment of the written path differs from the root's tag. *)
C30_RootNeverReplaced ==
    (entry \in WriterEntries /\ CallFinished /\ arg.dom # None
        /\ (entry = "write_new_ambiguous_element" => ElementPath(arg.path)))
    => (exc = "none" /\ RootKept(arg.dom, target_dom))

====
